---- MODULE Spec2Model ----
(***************************************************************************)
(* Bundle installation workflow of the cosmos-proposal-builder:            *)
(* installBundle (validate, encode, gzip, chunk, submit, watch) and the    *)
(* chunkBundle helper it awaits.  Every await of the source is one step of *)
(* the model; the injected functions (gzip, signAndBroadcast, watchBundle) *)
(* settle with an outcome chosen by the environment.                       *)
(***************************************************************************)
EXTENDS Integers, Sequences, FiniteSets, TLC

\* ---------------------------------------------------------------- bounds
MaxStrLen == 3       \* longest bundle string, in UTF-16 code units
MaxBytes == 4        \* longest gzip result, in bytes
MaxLimit == 3        \* largest finite chunkSizeLimit
MaxHeight == 2       \* block heights a transaction response may carry

\* ------------------------------------------------------- program constants
\* Number's Infinity (chunkSizeLimit while the chain parameter is not loaded);
\* larger than every length of the model, so >, min and += act as on Infinity.
Infinity == 1000
\* Math.ceil of 0 / 0
NaN == 1001
\* a variable that holds JavaScript's undefined
Undefined == 0 - 1

Min(a, b) == IF a < b THEN a ELSE b

\* cap on the iterations of a chunkBundle loop that never ends (limit 0); no
\* loop that ends needs more than MaxBytes iterations
MaxIter == MaxBytes + 1

\* ------------------------------------------------------------- input sets
Byte == {0, 1}
ByteSeqs == UNION {[1..n -> Byte] : n \in 0..MaxBytes}
\* What the injected gzip may return: one byte sequence of every length (the
\* run depends on the length only; the bytes alternate so that a chunk shows
\* where it was cut).
GzipResults == {[k \in 1..n |-> k % 2] : n \in 0..MaxBytes}
Chars == {"a", "e'"}
BundleTexts ==
  {s \in UNION {[1..n -> Chars] : n \in 1..MaxStrLen} :
     \A k \in 2..Len(s) : s[k] = "a"}
HashFields == {3, 9}
Heights == 1..MaxHeight
ArtifactIds == {5, 6}
Limits == (0..MaxLimit) \cup {Infinity}

\* What JSON.parse makes of the bundle string, as far as validateBundleJson
\* looks at it.
ParsedBundles ==
  {[parsable |-> FALSE, isNull |-> FALSE, moduleFormat |-> "",
    zipIsString |-> FALSE, shaIsString |-> FALSE,
    endoZipBase64Sha512 |-> Undefined],
   [parsable |-> TRUE, isNull |-> TRUE, moduleFormat |-> "",
    zipIsString |-> FALSE, shaIsString |-> FALSE,
    endoZipBase64Sha512 |-> Undefined]}
  \cup
  {[parsable |-> TRUE, isNull |-> FALSE, moduleFormat |-> m, zipIsString |-> z,
    shaIsString |-> FALSE, endoZipBase64Sha512 |-> Undefined] :
     m \in {"endoZipBase64", "getExport"}, z \in BOOLEAN}
  \cup
  {[parsable |-> TRUE, isNull |-> FALSE, moduleFormat |-> m, zipIsString |-> z,
    shaIsString |-> TRUE, endoZipBase64Sha512 |-> h] :
     m \in {"endoZipBase64", "getExport"}, z \in BOOLEAN, h \in HashFields}

Params ==
  [text : BundleTexts, parsed : ParsedBundles, chunkSizeLimit : Limits,
   hasWatchBundle : BOOLEAN, hasOnProgress : BOOLEAN]

\* --------------------------------------------------------- pure functions
\* TextEncoder.encode: UTF-8, one byte for an ASCII character and two for an
\* accented one.
RECURSIVE encodeBundle(_)
encodeBundle(text) ==
  IF text = <<>> THEN <<>>
  ELSE (IF Head(text) = "a" THEN <<0>> ELSE <<1, 1>>) \o encodeBundle(Tail(text))

\* SHA-512 as a collision-free digest: the bijective base-2 numeral of the bytes.
RECURSIVE getSha512Hex(_)
getSha512Hex(bytes) ==
  IF bytes = <<>> THEN 0
  ELSE 2 * getSha512Hex(SubSeq(bytes, 1, Len(bytes) - 1)) + bytes[Len(bytes)] + 1

\* validateBundleJson testing endoZipBase64 before moduleFormat
validateBundleJsonZipFirst(parsed) ==
  IF ~parsed.parsable THEN "not parsable as JSON"
  ELSE IF parsed.isNull THEN "cannot destructure null"
  ELSE IF ~parsed.zipIsString THEN "endoZipBase64"
  ELSE IF parsed.moduleFormat # "endoZipBase64" THEN "moduleFormat"
  ELSE IF ~parsed.shaIsString THEN "endoZipBase64Sha512"
  ELSE "ok"

\* validateBundleJson: "ok" or the check that throws (destructuring the
\* parsed value throws a TypeError when the bundle string is "null").
validateBundleJson(parsed) ==
  IF ~parsed.parsable THEN "not parsable as JSON"
  ELSE IF parsed.isNull THEN "cannot destructure null"
  ELSE IF parsed.moduleFormat # "endoZipBase64" THEN "moduleFormat"
  ELSE IF ~parsed.zipIsString THEN "endoZipBase64"
  ELSE IF ~parsed.shaIsString THEN "endoZipBase64Sha512"
  ELSE "ok"

\* Uint8Array.prototype.subarray(begin, end), 0-based, end exclusive.
subarray(bytes, begin, end) ==
  SubSeq(bytes, Min(begin, Len(bytes)) + 1, Min(end, Len(bytes)))

\* shouldChunk with >= in place of >
shouldChunkInclusive(bundleJson, chunkSizeLimit) ==
  Len(bundleJson) >= chunkSizeLimit

\* installBundle's chunk decision (the bundle string's length, in UTF-16 code
\* units, against the limit).
shouldChunk(bundleJson, chunkSizeLimit) == Len(bundleJson) > chunkSizeLimit

\* Math.ceil(compressedBundleBytes.byteLength / chunkSizeLimit)
chunkCountOf(byteLength, chunkSizeLimit) ==
  IF chunkSizeLimit = Infinity THEN 0
  ELSE IF chunkSizeLimit = 0 THEN (IF byteLength = 0 THEN NaN ELSE Infinity)
  ELSE (byteLength + chunkSizeLimit - 1) \div chunkSizeLimit

\* chunkLoopTest with <= in place of <
chunkLoopTestInclusive(i, bytes) == i <= Len(bytes)

\* chunkBundle's loop condition
chunkLoopTest(i, bytes) == i < Len(bytes)

\* chunkSlice with an inclusive end
chunkSliceInclusive(bytes, i, chunkSizeLimit) ==
  subarray(bytes, i, Min(Len(bytes), i + chunkSizeLimit + 1))

\* the slice chunkBundle takes at offset i
chunkSlice(bytes, i, chunkSizeLimit) ==
  subarray(bytes, i, Min(Len(bytes), i + chunkSizeLimit))

\* chunkBundle's loop increment (Infinity absorbs the addition)
chunkLoopStep(i, chunkSizeLimit) == Min(i + chunkSizeLimit, Infinity)

\* chunkInfo recording the index of the chunk's last byte as its size
chunkInfoLastIndex(chunk) ==
  [sha512 |-> getSha512Hex(chunk), sizeBytes |-> Len(chunk) - 1, state |-> 0]

\* the ChunkInfo chunkBundle pushes for a chunk
chunkInfo(chunk) ==
  [sha512 |-> getSha512Hex(chunk), sizeBytes |-> Len(chunk), state |-> 0]
chunkManifest(bytes, sha, infos) ==
  [sha512 |-> sha, sizeBytes |-> Len(bytes), chunks |-> infos]

NoManifest == [sha512 |-> Undefined, sizeBytes |-> Undefined, chunks |-> <<>>]

\* makeInstallBundleMsg; hasBundle and hasArtifact tell which of the optional
\* compressedBundle and chunkedArtifact the caller passed.
makeInstallBundleMsg(hasBundle, bundle, size, hasArtifact, artifact) ==
  [typeUrl |-> "/agoric.swingset.MsgInstallBundle",
   hasCompressedBundle |-> hasBundle, compressedBundle |-> bundle,
   uncompressedSize |-> size,
   hasChunkedArtifact |-> hasArtifact, chunkedArtifact |-> artifact,
   chunkedArtifactId |-> Undefined, chunkIndex |-> Undefined, chunkData |-> <<>>]

\* makeSendChunkMsg with the artifact id and the chunk index swapped
makeSendChunkMsgSwapped(artifactId, chunkIndex, chunkData) ==
  [typeUrl |-> "/agoric.swingset.MsgSendChunk",
   hasCompressedBundle |-> FALSE, compressedBundle |-> <<>>,
   uncompressedSize |-> Undefined,
   hasChunkedArtifact |-> FALSE, chunkedArtifact |-> NoManifest,
   chunkedArtifactId |-> chunkIndex, chunkIndex |-> artifactId,
   chunkData |-> chunkData]

makeSendChunkMsg(artifactId, chunkIndex, chunkData) ==
  [typeUrl |-> "/agoric.swingset.MsgSendChunk",
   hasCompressedBundle |-> FALSE, compressedBundle |-> <<>>,
   uncompressedSize |-> Undefined,
   hasChunkedArtifact |-> FALSE, chunkedArtifact |-> NoManifest,
   chunkedArtifactId |-> artifactId, chunkIndex |-> chunkIndex,
   chunkData |-> chunkData]

\* sendLoopTest stopping one chunk early
sendLoopTestShort(i, chunkList) == i < Len(chunkList) - 1

\* the loop of installBundle over the chunks: its condition and its increment
sendLoopTest(i, chunkList) == i < Len(chunkList)

\* sendLoopStep advancing by two
sendLoopStepSkip(i) == i + 2

sendLoopStep(i) == i + 1

\* ------------------------------------------------------------------ state
VARIABLES
  params,                 \* InstallBundleParams of the run
  pc,                     \* the await the run is suspended at
  compressedBundleBytes,  \* gzip's result
  cbBytes, cbLimit,       \* chunkBundle's arguments
  cbI, chunks, info, bundleSha512Hex,   \* chunkBundle's locals
  chunkedArtifactId, blockHeight, i,    \* installBundle's locals
  calls,                  \* signAndBroadcast calls made, in order
  outcomes,               \* how each of them settled, in order
  events,                 \* onProgress events emitted, in order
  watchCalls,             \* watchBundle calls made, in order
  hashed,                 \* byte sequences passed to getSha512Hex, in order
  error,                  \* the Error installBundle rejected with
  result,                 \* <<>> or <<InstallBundleResult>>
  page,                   \* the Agoric page: its hooks' state and its handlers
  form,                   \* the GovV1ParameterInputs component's state
  arg,                    \* the argument of a function called on its own
  ret                     \* what that call returned or threw

cbVars == <<cbBytes, cbLimit, cbI, chunks, info, bundleSha512Hex>>
ibVars == <<chunkedArtifactId, blockHeight, i>>
vars == <<params, pc, compressedBundleBytes, cbBytes, cbLimit, cbI, chunks,
          info, bundleSha512Hex, chunkedArtifactId, blockHeight, i, calls,
          outcomes, events, watchCalls, hashed, error, result,
          page, form, arg, ret>>
extVars == <<page, form, arg, ret>>

NoError == [step |-> "none", index |-> Undefined, cause |-> ""]
Err(step, index, cause) == [step |-> step, index |-> index, cause |-> cause]

uncompressedBundleBytes == encodeBundle(params.text)

\* the bundle hash computed from the encoded bundle instead of read from it
computedBundleSha512 == getSha512Hex(uncompressedBundleBytes)

\* the hash the validated bundle object declares
endoZipBase64Sha512 == params.parsed.endoZipBase64Sha512

\* An InstallBundleProgress event; the fields its type lacks are Undefined.
Event(type, height, index, total, chunkCount) ==
  [type |-> type, bundleHash |-> endoZipBase64Sha512, height |-> height,
   index |-> index, total |-> total, chunkCount |-> chunkCount]
Preflight(uncompressedSize, compressedSize, chunked, chunkCount) ==
  [type |-> "preflight", bundleHash |-> endoZipBase64Sha512,
   uncompressedSize |-> uncompressedSize, compressedSize |-> compressedSize,
   chunked |-> chunked, chunkCount |-> chunkCount]

\* onProgress?.(event)
Emit(evs, e) == IF params.hasOnProgress THEN Append(evs, e) ELSE evs

Call(msg, toastType) == [msg |-> msg, toastType |-> toastType]

\* The page before a bundle is submitted: useWallet's walletAddress, the
\* position and locals of fallibleHandleBundle, what the handler called
\* (signAndBroadcast, watchBundle, toast, bundleFormRef.reset) and how
\* handleBundle's promise settled; proposal is the same for a submit handler
\* made by handleProposal; what its queries hold (the swingset parameters, the
\* minimum deposit, the wallet's balance) and the alertBox state.
NoProposal ==
  [msgType |-> "", pc |-> "idle", error |-> NoError, handled |-> "pending",
   vals |-> [hasEvals |-> FALSE, hasRecipient |-> FALSE, hasAmount |-> FALSE,
             msgType |-> ""],
   resets |-> 0, consoleErrors |-> 0]
NoPage ==
  [walletAddress |-> FALSE, proposal |-> NoProposal,
   swingSetParams |-> [isLoading |-> TRUE, hasData |-> FALSE,
                       chunk_size_limit_bytes |-> Undefined],
   minDeposit |-> Undefined, balance |-> Undefined, alertBox |-> TRUE,
   pc |-> "idle", compressedBundleBytes |-> <<>>,
   cbI |-> 0, chunks |-> <<>>, info |-> <<>>, bundleSha512Hex |-> Undefined,
   chunkedArtifactId |-> Undefined, blockHeight |-> Undefined, i |-> 0,
   calls |-> <<>>, outcomes |-> <<>>, watchCalls |-> <<>>, toasts |-> <<>>,
   resets |-> 0, error |-> NoError, handled |-> "pending"]

Init ==
  /\ params \in Params
  /\ pc = "start"
  /\ compressedBundleBytes = <<>>
  /\ cbBytes = <<>> /\ cbLimit = 0 /\ cbI = 0
  /\ chunks = <<>> /\ info = <<>> /\ bundleSha512Hex = Undefined
  /\ chunkedArtifactId = Undefined /\ blockHeight = Undefined /\ i = 0
  /\ calls = <<>> /\ outcomes = <<>> /\ events = <<>> /\ watchCalls = <<>>
  /\ hashed = <<>>
  /\ error = NoError
  /\ result = <<>>
  /\ page = NoPage
  /\ form = Undefined /\ arg = Undefined /\ ret = Undefined

\* installBundle up to its first await: validateBundleJson, encodeBundle and
\* the call of gzip.
RunCallInstallBundle ==
  /\ pc = "start"
  /\ IF validateBundleJson(params.parsed) # "ok"
     THEN /\ pc' = "rejected"
          /\ error' = Err("validate", Undefined, validateBundleJson(params.parsed))
     ELSE /\ pc' = "gzip"
          /\ UNCHANGED error
  /\ UNCHANGED <<params, compressedBundleBytes, cbVars, ibVars, calls,
                 outcomes, events, watchCalls, hashed, result>>

CallInstallBundle ==
  /\ RunCallInstallBundle
  /\ UNCHANGED extVars

\* The tail of installBundle, after the last transaction returned at height h
\* and evs were emitted: the height check, "watching", watchBundle, return.
ResultOf(h) ==
  [bundleHash |-> endoZipBase64Sha512, blockHeight |-> h,
   chunked |-> shouldChunk(params.text, params.chunkSizeLimit),
   chunkCount |->
     IF shouldChunk(params.text, params.chunkSizeLimit)
     THEN chunkCountOf(Len(compressedBundleBytes), params.chunkSizeLimit)
     ELSE Undefined,
   compressedSize |-> Len(compressedBundleBytes),
   uncompressedSize |-> Len(uncompressedBundleBytes)]

Finish(h, evs) ==
  IF h = Undefined
  THEN /\ pc' = "rejected"
       /\ error' = Err("height", Undefined, "no block height")
       /\ events' = evs
       /\ UNCHANGED <<watchCalls, result>>
  ELSE /\ events' = Emit(evs, Event("watching", h, Undefined, Undefined,
                                    Undefined))
       /\ UNCHANGED error
       /\ IF params.hasWatchBundle
          THEN /\ pc' = "watchBundle"
               /\ watchCalls' = Append(watchCalls,
                    [bundleHash |-> endoZipBase64Sha512, height |-> h])
               /\ UNCHANGED result
          ELSE /\ pc' = "resolved"
               /\ result' = <<ResultOf(h)>>
               /\ UNCHANGED watchCalls

\* gzip resolves: sizes, chunk decision, preflight; then the bundle
\* transaction, or the call of chunkBundle (which starts hashing the whole
\* compressed bundle).
RunGzipResolved(bytes) ==
  /\ pc = "gzip"
  /\ compressedBundleBytes' = bytes
  /\ events' = Emit(events,
       Preflight(Len(uncompressedBundleBytes), Len(bytes),
                 shouldChunk(params.text, params.chunkSizeLimit),
                 IF shouldChunk(params.text, params.chunkSizeLimit)
                 THEN chunkCountOf(Len(bytes), params.chunkSizeLimit)
                 ELSE Undefined))
  /\ IF ~shouldChunk(params.text, params.chunkSizeLimit)
     THEN /\ calls' = Append(calls,
               Call(makeInstallBundleMsg(TRUE, bytes,
                      Len(uncompressedBundleBytes), FALSE, NoManifest),
                    "bundle"))
          /\ pc' = "awaitBundle"
          /\ UNCHANGED <<cbBytes, cbLimit, hashed>>
     ELSE /\ cbBytes' = bytes
          /\ cbLimit' = params.chunkSizeLimit
          /\ hashed' = Append(hashed, bytes)
          /\ pc' = "cbHashBundle"
          /\ UNCHANGED calls
  /\ UNCHANGED <<params, cbI, chunks, info, bundleSha512Hex, ibVars,
                 outcomes, watchCalls, error, result>>

GzipResolved ==
  /\ \E bytes \in GzipResults : RunGzipResolved(bytes)
  /\ UNCHANGED extVars

\* gzip rejects: installBundle rejects with gzip's error.
RunGzipRejected ==
  /\ pc = "gzip"
  /\ pc' = "rejected"
  /\ error' = Err("gzip", Undefined, "rejected")
  /\ UNCHANGED <<params, compressedBundleBytes, cbVars, ibVars, calls,
                 outcomes, events, watchCalls, hashed, result>>

GzipRejected ==
  /\ RunGzipRejected
  /\ UNCHANGED extVars

\* BundleFailed without the check of an undefined response: the run goes on
\* to the tail without a block height.
BundleFailedUnchecked(o) ==
  IF o = "undefined"
  THEN /\ outcomes' = Append(outcomes, o)
       /\ blockHeight' = Undefined
       /\ Finish(Undefined, events)
  ELSE /\ outcomes' = Append(outcomes, o)
       /\ pc' = "rejected"
       /\ error' = Err("bundle", Undefined, "rejected")
       /\ UNCHANGED <<blockHeight, events, watchCalls, result>>

\* The bundle transaction rejected or resolved to undefined (o): the catch
\* block rethrows, naming the bundle.
BundleFailed(o) ==
  /\ outcomes' = Append(outcomes, o)
  /\ pc' = "rejected"
  /\ error' = Err("bundle", Undefined,
                  IF o = "rejected" THEN "rejected" ELSE "no response for bundle")
  /\ UNCHANGED <<blockHeight, events, watchCalls, result>>

\* BundleSucceeded without its "bundle-submitted" event
BundleSucceededSilent(h) ==
  /\ outcomes' = Append(outcomes, "ok")
  /\ blockHeight' = h
  /\ Finish(h, events)

\* The bundle transaction returned a response at height h.
BundleSucceeded(h) ==
  /\ outcomes' = Append(outcomes, "ok")
  /\ blockHeight' = h
  /\ Finish(h, Emit(events, Event("bundle-submitted", h, Undefined, Undefined,
                                  Undefined)))

\* The single bundle transaction settles.
BundleResponse ==
  /\ pc = "awaitBundle"
  /\ \/ \E o \in {"rejected", "undefined"} : BundleFailed(o)
     \/ \E h \in Heights : BundleSucceeded(h)
  /\ UNCHANGED <<extVars, params, compressedBundleBytes, cbVars, chunkedArtifactId, i,
                 calls, hashed>>

\* chunkBundle: the hash of the whole input resolves; the loop starts at 0.
\* Entering an iteration takes the slice and starts hashing it.
RunChunkBundleHashed ==
  /\ pc = "cbHashBundle"
  /\ bundleSha512Hex' = getSha512Hex(cbBytes)
  /\ cbI' = 0
  /\ IF chunkLoopTest(0, cbBytes)
     THEN /\ hashed' = Append(hashed, chunkSlice(cbBytes, 0, cbLimit))
          /\ pc' = "cbHashChunk"
     ELSE /\ pc' = "cbReturn"
          /\ UNCHANGED hashed
  /\ UNCHANGED <<params, compressedBundleBytes, cbBytes, cbLimit, chunks, info,
                 ibVars, calls, outcomes, events, watchCalls, error, result>>

ChunkBundleHashed ==
  /\ RunChunkBundleHashed
  /\ UNCHANGED extVars

\* chunkBundle: the hash of the current slice resolves; the slice and its
\* info are pushed, i advances by chunkSizeLimit, and the loop is tested again.
RunChunkBundleChunkHashed ==
  /\ pc = "cbHashChunk"
  /\ Len(chunks) < MaxIter
  /\ chunks' = Append(chunks, chunkSlice(cbBytes, cbI, cbLimit))
  /\ info' = Append(info, chunkInfo(chunkSlice(cbBytes, cbI, cbLimit)))
  /\ cbI' = chunkLoopStep(cbI, cbLimit)
  /\ IF chunkLoopTest(cbI', cbBytes)
     THEN /\ hashed' = Append(hashed, chunkSlice(cbBytes, cbI', cbLimit))
          /\ pc' = "cbHashChunk"
     ELSE /\ pc' = "cbReturn"
          /\ UNCHANGED hashed
  /\ UNCHANGED <<params, compressedBundleBytes, cbBytes, cbLimit,
                 bundleSha512Hex, ibVars, calls, outcomes, events, watchCalls,
                 error, result>>

ChunkBundleChunkHashed ==
  /\ RunChunkBundleChunkHashed
  /\ UNCHANGED extVars

\* installBundle resumes with {chunks, manifest} and submits the manifest.
RunChunkBundleReturned ==
  /\ pc = "cbReturn"
  /\ calls' = Append(calls,
       Call(makeInstallBundleMsg(FALSE, <<>>, Len(uncompressedBundleBytes),
              TRUE, chunkManifest(cbBytes, bundleSha512Hex, info)),
            "bundle"))
  /\ pc' = "awaitManifest"
  /\ UNCHANGED <<params, compressedBundleBytes, cbVars, ibVars, outcomes,
                 events, watchCalls, hashed, error, result>>

ChunkBundleReturned ==
  /\ RunChunkBundleReturned
  /\ UNCHANGED extVars

\* What a manifest transaction response may hold for installBundle: whether
\* it has a MsgInstallBundleResponse and the chunkedArtifactId decoded from it.
ManifestResponses ==
  [hasInstallBundleResponse : BOOLEAN,
   chunkedArtifactId : ArtifactIds \cup {Undefined}]

\* The manifest transaction rejected or resolved to undefined (o).
ManifestFailed(o) ==
  /\ outcomes' = Append(outcomes, o)
  /\ pc' = "rejected"
  /\ error' = Err("manifest", Undefined,
                  IF o = "rejected" THEN "rejected"
                  ELSE "no transaction response")
  /\ UNCHANGED <<ibVars, calls, events, watchCalls, result>>

\* The manifest transaction returned response r at height h: the artifact id
\* is taken from it, "manifest-submitted" is emitted and the chunk loop starts
\* by submitting chunk 0 (or, without chunks, installBundle goes on to watch).
ManifestSucceeded(h, r) ==
  /\ outcomes' = Append(outcomes, "ok")
  /\ blockHeight' = h
  /\ IF ~r.hasInstallBundleResponse \/ r.chunkedArtifactId = Undefined
     THEN /\ pc' = "rejected"
          /\ error' = Err("manifest", Undefined,
               IF ~r.hasInstallBundleResponse
               THEN "no install bundle response"
               ELSE "no chunked artifact identifier")
          /\ UNCHANGED <<chunkedArtifactId, i, calls, events, watchCalls,
                         result>>
     ELSE /\ chunkedArtifactId' = r.chunkedArtifactId
          /\ i' = 0
          /\ IF sendLoopTest(0, chunks)
             THEN /\ calls' = Append(calls,
                       Call(makeSendChunkMsg(r.chunkedArtifactId, 0, chunks[1]),
                            "bundle-chunk"))
                  /\ pc' = "awaitChunk"
                  /\ events' = Emit(events,
                       Event("manifest-submitted", h, Undefined, Undefined,
                             Len(chunks)))
                  /\ UNCHANGED <<watchCalls, error, result>>
             ELSE /\ UNCHANGED calls
                  /\ Finish(h, Emit(events,
                       Event("manifest-submitted", h, Undefined, Undefined,
                             Len(chunks))))

\* The manifest transaction settles.
ManifestResponse ==
  /\ pc = "awaitManifest"
  /\ \/ \E o \in {"rejected", "undefined"} : ManifestFailed(o)
     \/ \E h \in Heights, r \in ManifestResponses : ManifestSucceeded(h, r)
  /\ UNCHANGED <<extVars, params, compressedBundleBytes, cbVars, hashed>>

\* ChunkFailed with a retry: the failed chunk is submitted again (twice at most).
ChunkFailedRetry(o) ==
  IF Len(calls) < 2 * MaxIter
  THEN /\ outcomes' = Append(outcomes, o)
       /\ calls' = Append(calls, calls[Len(calls)])
       /\ pc' = "awaitChunk"
       /\ UNCHANGED <<blockHeight, i, events, watchCalls, error, result>>
  ELSE /\ outcomes' = Append(outcomes, o)
       /\ pc' = "rejected"
       /\ error' = Err("chunk", i, "rejected")
       /\ UNCHANGED <<blockHeight, i, calls, events, watchCalls, result>>

\* ChunkFailed with a catch block that does not rethrow: the run falls
\* through to the tail of installBundle.
ChunkFailedSwallowed(o) ==
  /\ outcomes' = Append(outcomes, o)
  /\ UNCHANGED <<blockHeight, i, calls>>
  /\ Finish(blockHeight, events)

\* The transaction of chunk i rejected or resolved to undefined (o).
ChunkFailed(o) ==
  /\ outcomes' = Append(outcomes, o)
  /\ pc' = "rejected"
  /\ error' = Err("chunk", i,
                  IF o = "rejected" THEN "rejected"
                  ELSE "no transaction response")
  /\ UNCHANGED <<blockHeight, i, calls, events, watchCalls, result>>

\* The transaction of chunk i returned a response at height h:
\* "chunk-submitted" is emitted and the loop goes on to chunk i + 1, or
\* installBundle goes on to watch.
ChunkSucceeded(h) ==
  /\ outcomes' = Append(outcomes, "ok")
  /\ blockHeight' = h
  /\ i' = sendLoopStep(i)
  /\ IF sendLoopTest(i', chunks)
     THEN /\ calls' = Append(calls,
               Call(makeSendChunkMsg(chunkedArtifactId, i', chunks[i' + 1]),
                    "bundle-chunk"))
          /\ pc' = "awaitChunk"
          /\ events' = Emit(events,
               Event("chunk-submitted", h, i, Len(chunks), Undefined))
          /\ UNCHANGED <<watchCalls, error, result>>
     ELSE /\ UNCHANGED calls
          /\ Finish(h, Emit(events,
               Event("chunk-submitted", h, i, Len(chunks), Undefined)))

\* ChunkResponse without the await: the next chunk is submitted while the
\* transaction of chunk i is still outstanding.
ChunkResponseNoAwait ==
  /\ pc = "awaitChunk"
  /\ sendLoopTest(sendLoopStep(i), chunks)
  /\ i' = sendLoopStep(i)
  /\ calls' = Append(calls,
       Call(makeSendChunkMsg(chunkedArtifactId, i', chunks[i' + 1]),
            "bundle-chunk"))
  /\ UNCHANGED <<extVars, params, pc, compressedBundleBytes, cbVars, chunkedArtifactId,
                 blockHeight, outcomes, events, watchCalls, hashed, error,
                 result>>

\* The transaction of chunk i settles.
ChunkResponse ==
  /\ pc = "awaitChunk"
  /\ \/ \E o \in {"rejected", "undefined"} : ChunkFailed(o)
     \/ \E h \in Heights : ChunkSucceeded(h)
  /\ UNCHANGED <<extVars, params, compressedBundleBytes, cbVars, chunkedArtifactId,
                 hashed>>

\* watchBundle resolves and installBundle returns its result.
RunWatchResolved ==
  /\ pc = "watchBundle"
  /\ pc' = "resolved"
  /\ result' = <<ResultOf(blockHeight)>>
  /\ UNCHANGED <<params, compressedBundleBytes, cbVars, ibVars, calls,
                 outcomes, events, watchCalls, hashed, error>>

WatchResolved ==
  /\ RunWatchResolved
  /\ UNCHANGED extVars

\* watchBundle rejects and installBundle rejects with its error.
RunWatchRejected ==
  /\ pc = "watchBundle"
  /\ pc' = "rejected"
  /\ error' = Err("watchBundle", Undefined, "rejected")
  /\ UNCHANGED <<params, compressedBundleBytes, cbVars, ibVars, calls,
                 outcomes, events, watchCalls, hashed, result>>

WatchRejected ==
  /\ RunWatchRejected
  /\ UNCHANGED extVars

Next ==
  \/ CallInstallBundle
  \/ GzipResolved
  \/ GzipRejected
  \/ BundleResponse
  \/ ChunkBundleHashed
  \/ ChunkBundleChunkHashed
  \/ ChunkBundleReturned
  \/ ManifestResponse
  \/ ChunkResponse
  \/ WatchResolved
  \/ WatchRejected

Spec == Init /\ [][Next]_vars

\* A run in which the injected gzip, signAndBroadcast and watchBundle settle
\* and every continuation that can run does run.  A chunkBundle loop that
\* never ends holds the run at "cbHashChunk": after MaxIter iterations the
\* model stops recording its (identical) iterations.
SpecLive == Spec /\ WF_vars(Next)

\* ------------------------------------------------ chunkBundle called alone
\* chunkBundle is exported; here a caller passes it any bytes and any limit.
InitChunk ==
  /\ params \in {p \in Params : /\ p.text = <<"a">>
                                /\ p.parsed.endoZipBase64Sha512 = 3
                                /\ p.parsed.moduleFormat = "endoZipBase64"
                                /\ p.parsed.zipIsString
                                /\ p.parsed.shaIsString
                                /\ p.chunkSizeLimit = Infinity
                                /\ p.hasWatchBundle /\ p.hasOnProgress}
  /\ pc = "cbHashBundle"
  /\ compressedBundleBytes = <<>>
  /\ cbBytes \in ByteSeqs /\ cbLimit \in Limits /\ cbI = 0
  /\ chunks = <<>> /\ info = <<>> /\ bundleSha512Hex = Undefined
  /\ chunkedArtifactId = Undefined /\ blockHeight = Undefined /\ i = 0
  /\ calls = <<>> /\ outcomes = <<>> /\ events = <<>> /\ watchCalls = <<>>
  /\ hashed = <<cbBytes>>
  /\ error = NoError
  /\ result = <<>>
  /\ page = NoPage
  /\ form = Undefined /\ arg = Undefined /\ ret = Undefined

NextChunk ==
  \/ ChunkBundleHashed
  \/ ChunkBundleChunkHashed

SpecChunk == InitChunk /\ [][NextChunk]_vars

\* installBundle is not running.
NoRun ==
  /\ params = [text |-> <<"a">>, parsed |-> CHOOSE b \in ParsedBundles : TRUE,
               chunkSizeLimit |-> Infinity, hasWatchBundle |-> FALSE,
               hasOnProgress |-> FALSE]
  /\ pc = "idle"
  /\ compressedBundleBytes = <<>>
  /\ cbBytes = <<>> /\ cbLimit = 0 /\ cbI = 0
  /\ chunks = <<>> /\ info = <<>> /\ bundleSha512Hex = Undefined
  /\ chunkedArtifactId = Undefined /\ blockHeight = Undefined /\ i = 0
  /\ calls = <<>> /\ outcomes = <<>> /\ events = <<>> /\ watchCalls = <<>>
  /\ hashed = <<>>
  /\ error = NoError
  /\ result = <<>>
runVars == <<params, pc, compressedBundleBytes, cbVars, ibVars, calls,
             outcomes, events, watchCalls, hashed, error, result>>
pageFrame == <<runVars, form, arg, ret>>

\* ----------------------------------------- the page's Install Bundle handler
\* handleBundle and fallibleHandleBundle of the Agoric page, one step per
\* await.  The bundle string, its parse and the chunkSizeLimit the page read
\* from the swingset parameters are params.text, params.parsed and
\* params.chunkSizeLimit.
AutoCloseToast == 3000

\* the page's validateBundle: "ok" or the check that throws
validateBundle(parsed) ==
  IF ~parsed.parsable THEN "not parsable as JSON"
  ELSE IF parsed.isNull THEN "cannot destructure null"
  ELSE IF parsed.moduleFormat # "endoZipBase64" THEN "moduleFormat"
  ELSE IF ~parsed.zipIsString THEN "endoZipBase64"
  ELSE IF ~parsed.shaIsString THEN "endoZipBase64Sha512"
  ELSE "ok"

\* toast.error(error.message, { autoClose: error.autoCloseToast })
ToastError(e) ==
  [kind |-> "error", message |-> e, summary |-> "", txCount |-> Undefined,
   autoClose |-> IF e.step = "wallet" THEN AutoCloseToast ELSE Undefined]
\* toast.info([txSummary, ...txInfo].join(", "))
ToastInfo(summary, txCount) ==
  [kind |-> "info", message |-> NoError, summary |-> summary,
   txCount |-> txCount, autoClose |-> Undefined]

\* handleBundle without its catch block: the error leaves the handler.
handleBundleUncaught(p) == [p EXCEPT !.handled = "rejected"]

\* handleBundle's catch block, entered with the error p.error.
handleBundleCatch(p) ==
  [p EXCEPT !.toasts = Append(@, ToastError(p.error)), !.handled = "resolved"]

\* fallibleHandleBundle throws e.
PageThrow(p, e) == handleBundleCatch([p EXCEPT !.pc = "done", !.error = e])

\* fallibleHandleBundle up to its first await: the wallet check,
\* validateBundle, textEncoder.encode and the call of gzip.
PageStart(p) ==
  IF ~p.walletAddress
  THEN PageThrow(p, Err("wallet", Undefined, "wallet not connected"))
  ELSE IF validateBundle(params.parsed) # "ok"
  THEN PageThrow(p, Err("validate", Undefined, validateBundle(params.parsed)))
  ELSE [p EXCEPT !.pc = "gzip"]

\* pageSingle with < in place of <=
pageSingleStrict(bundleString, chunkSizeLimit) ==
  Len(bundleString) < chunkSizeLimit

\* the page's chunk decision: bundleString.length <= chunkSizeLimit
pageSingle(bundleString, chunkSizeLimit) == Len(bundleString) <= chunkSizeLimit

\* gzip resolves to bytes: the single transaction is announced and sent, or
\* chunkBundle is called.
PageGzipResolved(p, bytes) ==
  IF pageSingle(params.text, params.chunkSizeLimit)
  THEN [p EXCEPT !.compressedBundleBytes = bytes,
                 !.toasts = Append(@, ToastInfo("one transaction", 1)),
                 !.calls = Append(@, Call(makeInstallBundleMsg(TRUE, bytes,
                              Len(uncompressedBundleBytes), FALSE, NoManifest),
                            "bundle")),
                 !.pc = "awaitBundle"]
  ELSE [p EXCEPT !.compressedBundleBytes = bytes, !.pc = "cbHashBundle"]

PageGzipRejected(p) == PageThrow(p, Err("gzip", Undefined, "rejected"))

\* The tail of fallibleHandleBundle after the last transaction returned at
\* height h: the height check and the call of watchBundle.
PageFinish(p, h) ==
  IF h = Undefined
  THEN PageThrow(p, Err("height", Undefined, "no block height"))
  ELSE [p EXCEPT !.pc = "watchBundle",
                 !.watchCalls = Append(@, [bundleHash |-> endoZipBase64Sha512,
                                           height |-> h])]

PageBundleFailed(p, o) ==
  PageThrow([p EXCEPT !.outcomes = Append(@, o)],
            Err("bundle", Undefined,
                IF o = "rejected" THEN "rejected" ELSE "no response for bundle"))

PageBundleSucceeded(p, h) ==
  PageFinish([p EXCEPT !.outcomes = Append(@, "ok"), !.blockHeight = h], h)

\* the page's chunkBundle: the hash of the whole input resolves
PageChunkBundleHashed(p) ==
  [p EXCEPT !.bundleSha512Hex = getSha512Hex(p.compressedBundleBytes),
            !.cbI = 0,
            !.pc = IF chunkLoopTest(0, p.compressedBundleBytes)
                   THEN "cbHashChunk" ELSE "cbReturn"]

\* the page's chunkBundle: the hash of the current slice resolves
PageChunkBundleChunkHashed(p) ==
  LET chunk == chunkSlice(p.compressedBundleBytes, p.cbI, params.chunkSizeLimit)
      next == chunkLoopStep(p.cbI, params.chunkSizeLimit)
  IN [p EXCEPT !.chunks = Append(@, chunk),
               !.info = Append(@, chunkInfo(chunk)),
               !.cbI = next,
               !.pc = IF chunkLoopTest(next, p.compressedBundleBytes)
                      THEN "cbHashChunk" ELSE "cbReturn"]

\* chunkBundle returned: the transactions are announced and the manifest sent.
PageChunkBundleReturned(p) ==
  [p EXCEPT !.toasts = Append(@, ToastInfo("manifest and chunks",
                                           Len(p.chunks) + 1)),
            !.calls = Append(@, Call(makeInstallBundleMsg(FALSE, <<>>,
                         Len(uncompressedBundleBytes), TRUE,
                         chunkManifest(p.compressedBundleBytes,
                                       p.bundleSha512Hex, p.info)),
                       "bundle")),
            !.pc = "awaitManifest"]

PageManifestFailed(p, o) ==
  PageThrow([p EXCEPT !.outcomes = Append(@, o)],
            Err("manifest", Undefined,
                IF o = "rejected" THEN "rejected"
                ELSE "no transaction response"))

\* The chunk loop at index k: chunk k is sent, or the loop is left.
PageSendLoop(p, k) ==
  IF sendLoopTest(k, p.chunks)
  THEN [p EXCEPT !.i = k,
                 !.calls = Append(@, Call(makeSendChunkMsg(p.chunkedArtifactId,
                                             k, p.chunks[k + 1]),
                                          "bundle-chunk")),
                 !.pc = "awaitChunk"]
  ELSE PageFinish([p EXCEPT !.i = k], p.blockHeight)

PageManifestSucceeded(p, h, r) ==
  LET q == [p EXCEPT !.outcomes = Append(@, "ok"), !.blockHeight = h]
  IN IF ~r.hasInstallBundleResponse
     THEN PageThrow(q, Err("manifest", Undefined, "no install bundle response"))
     ELSE IF r.chunkedArtifactId = Undefined
     THEN PageThrow(q, Err("manifest", Undefined,
                           "no chunked artifact identifier"))
     ELSE PageSendLoop([q EXCEPT !.chunkedArtifactId = r.chunkedArtifactId], 0)

PageChunkFailed(p, o) ==
  PageThrow([p EXCEPT !.outcomes = Append(@, o)],
            Err("chunk", p.i,
                IF o = "rejected" THEN "rejected"
                ELSE "no transaction response"))

PageChunkSucceeded(p, h) ==
  PageSendLoop([p EXCEPT !.outcomes = Append(@, "ok"), !.blockHeight = h],
               sendLoopStep(p.i))

\* watchBundle resolves: the bundle form is reset and the handler returns.
PageWatchResolved(p) ==
  [p EXCEPT !.pc = "done", !.resets = @ + 1, !.handled = "resolved"]

PageWatchRejected(p) == PageThrow(p, Err("watchBundle", Undefined, "rejected"))

\* The handler's steps as actions of the page alone.
HandleBundle ==
  /\ page.pc = "start"
  /\ page' = PageStart(page)
  /\ UNCHANGED pageFrame
PageGzip ==
  /\ page.pc = "gzip"
  /\ \/ \E bytes \in GzipResults : page' = PageGzipResolved(page, bytes)
     \/ page' = PageGzipRejected(page)
  /\ UNCHANGED pageFrame
PageBundleResponse ==
  /\ page.pc = "awaitBundle"
  /\ \/ \E o \in {"rejected", "undefined"} : page' = PageBundleFailed(page, o)
     \/ \E h \in Heights : page' = PageBundleSucceeded(page, h)
  /\ UNCHANGED pageFrame
PageChunkBundle ==
  /\ \/ /\ page.pc = "cbHashBundle"
        /\ page' = PageChunkBundleHashed(page)
     \/ /\ page.pc = "cbHashChunk"
        /\ Len(page.chunks) < MaxIter
        /\ page' = PageChunkBundleChunkHashed(page)
     \/ /\ page.pc = "cbReturn"
        /\ page' = PageChunkBundleReturned(page)
  /\ UNCHANGED pageFrame
PageManifestResponse ==
  /\ page.pc = "awaitManifest"
  /\ \/ \E o \in {"rejected", "undefined"} : page' = PageManifestFailed(page, o)
     \/ \E h \in Heights, r \in ManifestResponses :
          page' = PageManifestSucceeded(page, h, r)
  /\ UNCHANGED pageFrame
PageChunkResponse ==
  /\ page.pc = "awaitChunk"
  /\ \/ \E o \in {"rejected", "undefined"} : page' = PageChunkFailed(page, o)
     \/ \E h \in Heights : page' = PageChunkSucceeded(page, h)
  /\ UNCHANGED pageFrame
PageWatch ==
  /\ page.pc = "watchBundle"
  /\ \/ page' = PageWatchResolved(page)
     \/ page' = PageWatchRejected(page)

  /\ UNCHANGED pageFrame
InitPage ==
  /\ params \in {p \in Params : p.hasWatchBundle /\ p.hasOnProgress}
  /\ pc = "start"
  /\ compressedBundleBytes = <<>>
  /\ cbBytes = <<>> /\ cbLimit = 0 /\ cbI = 0
  /\ chunks = <<>> /\ info = <<>> /\ bundleSha512Hex = Undefined
  /\ chunkedArtifactId = Undefined /\ blockHeight = Undefined /\ i = 0
  /\ calls = <<>> /\ outcomes = <<>> /\ events = <<>> /\ watchCalls = <<>>
  /\ hashed = <<>>
  /\ error = NoError
  /\ result = <<>>
  /\ page \in {[NoPage EXCEPT !.walletAddress = w, !.pc = "start"] :
                 w \in BOOLEAN}
  /\ form = Undefined /\ arg = Undefined /\ ret = Undefined

NextPage ==
  \/ HandleBundle
  \/ PageGzip
  \/ PageBundleResponse
  \/ PageChunkBundle
  \/ PageManifestResponse
  \/ PageChunkResponse
  \/ PageWatch

SpecPage == InitPage /\ [][NextPage]_vars

\* ------------------------------ installBundle and the page's handler together
\* Both are called with the same bundle, chunkSizeLimit and submitter, and
\* every await of the two settles the same way: each step below is a step of
\* installBundle and the corresponding step of fallibleHandleBundle, given the
\* same gzip result, transaction response or watchBundle outcome.
eqFrame == <<form, arg, ret>>

InitEquiv ==
  /\ params \in {p \in Params : p.hasOnProgress}
  /\ pc = "start"
  /\ compressedBundleBytes = <<>>
  /\ cbBytes = <<>> /\ cbLimit = 0 /\ cbI = 0
  /\ chunks = <<>> /\ info = <<>> /\ bundleSha512Hex = Undefined
  /\ chunkedArtifactId = Undefined /\ blockHeight = Undefined /\ i = 0
  /\ calls = <<>> /\ outcomes = <<>> /\ events = <<>> /\ watchCalls = <<>>
  /\ hashed = <<>>
  /\ error = NoError
  /\ result = <<>>
  /\ page = [NoPage EXCEPT !.walletAddress = TRUE, !.pc = "start"]
  /\ form = Undefined /\ arg = Undefined /\ ret = Undefined

BothCalled ==
  /\ page.pc = "start"
  /\ RunCallInstallBundle
  /\ page' = PageStart(page)
  /\ UNCHANGED eqFrame
BothGzip ==
  /\ page.pc = "gzip"
  /\ \/ \E bytes \in GzipResults :
          /\ RunGzipResolved(bytes)
          /\ page' = PageGzipResolved(page, bytes)
     \/ /\ RunGzipRejected
        /\ page' = PageGzipRejected(page)
  /\ UNCHANGED eqFrame
BothBundleResponse ==
  /\ pc = "awaitBundle" /\ page.pc = "awaitBundle"
  /\ \/ \E o \in {"rejected", "undefined"} :
          /\ BundleFailed(o)
          /\ page' = PageBundleFailed(page, o)
     \/ \E h \in Heights :
          /\ BundleSucceeded(h)
          /\ page' = PageBundleSucceeded(page, h)
  /\ UNCHANGED <<params, compressedBundleBytes, cbVars, chunkedArtifactId, i,
                 calls, hashed, eqFrame>>
BothChunkBundle ==
  /\ page.pc = pc
  /\ \/ /\ RunChunkBundleHashed
        /\ page' = PageChunkBundleHashed(page)
     \/ /\ RunChunkBundleChunkHashed
        /\ page' = PageChunkBundleChunkHashed(page)
     \/ /\ RunChunkBundleReturned
        /\ page' = PageChunkBundleReturned(page)
  /\ UNCHANGED eqFrame
BothManifestResponse ==
  /\ pc = "awaitManifest" /\ page.pc = "awaitManifest"
  /\ \/ \E o \in {"rejected", "undefined"} :
          /\ ManifestFailed(o)
          /\ page' = PageManifestFailed(page, o)
     \/ \E h \in Heights, r \in ManifestResponses :
          /\ ManifestSucceeded(h, r)
          /\ page' = PageManifestSucceeded(page, h, r)
  /\ UNCHANGED <<params, compressedBundleBytes, cbVars, hashed, eqFrame>>
BothChunkResponse ==
  /\ pc = "awaitChunk" /\ page.pc = "awaitChunk"
  /\ \/ \E o \in {"rejected", "undefined"} :
          /\ ChunkFailed(o)
          /\ page' = PageChunkFailed(page, o)
     \/ \E h \in Heights :
          /\ ChunkSucceeded(h)
          /\ page' = PageChunkSucceeded(page, h)
  /\ UNCHANGED <<params, compressedBundleBytes, cbVars, chunkedArtifactId,
                 hashed, eqFrame>>
BothWatch ==
  /\ page.pc = "watchBundle"
  /\ \/ /\ RunWatchResolved
        /\ page' = PageWatchResolved(page)
     \/ /\ RunWatchRejected
        /\ page' = PageWatchRejected(page)
  /\ UNCHANGED eqFrame
\* installBundle was given no watchBundle and has returned; the page's
\* watchBundle settles.
PageWatchAlone ==
  /\ pc = "resolved"
  /\ PageWatch

NextEquiv ==
  \/ BothCalled
  \/ BothGzip
  \/ BothBundleResponse
  \/ BothChunkBundle
  \/ BothManifestResponse
  \/ BothChunkResponse
  \/ BothWatch
  \/ PageWatchAlone

SpecEquiv == InitEquiv /\ [][NextEquiv]_vars

\* ------------------------------------------- the page's proposal handlers
\* The submit handler handleProposal(msgType) returns, called with the form
\* values vals; of vals only what the handler tests is kept: which keys it
\* has and its own msgType.
MsgTypes ==
  {"textProposal", "coreEvalProposal", "parameterChangeProposal",
   "communityPoolSpendProposal", "installBundle"}
ProposalVals ==
  [hasEvals : BOOLEAN, hasRecipient : BOOLEAN, hasAmount : BOOLEAN,
   msgType : {"textProposal", "parameterChangeProposal"}]

\* toast.error("Wallet not connected.", { autoClose: 3000 })
ToastWallet ==
  [kind |-> "error", message |-> Err("wallet", Undefined, "Wallet not connected."),
   summary |-> "", txCount |-> Undefined, autoClose |-> AutoCloseToast]

\* the message the handler builds for msgType: <<>> when no branch built one,
\* <<"return">> when the parameter-change branch returns early
ProposalMsgOf(msgType, vals) ==
  IF msgType = "coreEvalProposal" THEN <<"makeCoreEvalProposalMsg">>
  ELSE IF msgType = "textProposal" THEN <<"makeTextProposalMsg">>
  ELSE IF msgType = "communityPoolSpendProposal"
  THEN <<"makeCommunityPoolSpendProposalMsg">>
  ELSE IF msgType = "parameterChangeProposal"
  THEN (IF vals.msgType # "parameterChangeProposal" THEN <<"return">>
        ELSE <<"makeParamChangeProposalMsg">>)
  ELSE <<>>

\* the handler throws e: its promise rejects
ProposalThrow(p, e) ==
  [p EXCEPT !.proposal.pc = "done", !.proposal.error = e,
            !.proposal.handled = "rejected"]

\* the handler up to its await of signAndBroadcast
ProposalStart(p, msgType, vals) ==
  LET q == [p EXCEPT !.proposal.msgType = msgType, !.proposal.vals = vals]
      proposalMsg == ProposalMsgOf(msgType, vals)
  IN IF ~p.walletAddress
     THEN ProposalThrow([q EXCEPT !.toasts = Append(@, ToastWallet)],
                        Err("wallet", Undefined, "wallet not connected"))
     ELSE IF msgType = "coreEvalProposal" /\ ~vals.hasEvals
     THEN ProposalThrow(q, Err("evals", Undefined, "Missing evals"))
     ELSE IF /\ msgType = "communityPoolSpendProposal"
             /\ (~vals.hasRecipient \/ ~vals.hasAmount)
     THEN ProposalThrow(q, Err("recipient", Undefined,
                               "Missing recipient or amount"))
     ELSE IF proposalMsg = <<"return">>
     THEN [q EXCEPT !.proposal.pc = "done", !.proposal.handled = "resolved"]
     ELSE IF proposalMsg = <<>>
     THEN ProposalThrow(q, Err("message", Undefined,
                               "Error parsing query or inputs."))
     ELSE [q EXCEPT !.calls = Append(@, Call(proposalMsg, "proposal")),
                    !.proposal.pc = "awaitProposal"]

\* signAndBroadcast resolves: both forms are reset
ProposalBroadcast(p) ==
  [p EXCEPT !.outcomes = Append(@, "ok"), !.proposal.resets = @ + 1,
            !.proposal.pc = "done", !.proposal.handled = "resolved"]

\* signAndBroadcast rejects: the catch block logs the error
ProposalBroadcastFailed(p) ==
  [p EXCEPT !.outcomes = Append(@, "rejected"),
            !.proposal.error = Err("proposal", Undefined, "rejected"),
            !.proposal.consoleErrors = @ + 1,
            !.proposal.pc = "done", !.proposal.handled = "resolved"]

HandleProposal ==
  /\ page.proposal.pc = "start"
  /\ \E msgType \in MsgTypes, vals \in ProposalVals :
       page' = ProposalStart(page, msgType, vals)
  /\ UNCHANGED pageFrame
ProposalResponse ==
  /\ page.proposal.pc = "awaitProposal"
  /\ \/ page' = ProposalBroadcast(page)
     \/ page' = ProposalBroadcastFailed(page)

  /\ UNCHANGED pageFrame
InitProposal ==
  /\ NoRun
  /\ page \in {[NoPage EXCEPT !.walletAddress = w, !.proposal.pc = "start"] :
                 w \in BOOLEAN}
  /\ form = Undefined /\ arg = Undefined /\ ret = Undefined

NextProposal ==
  \/ HandleProposal
  \/ ProposalResponse

SpecProposal == InitProposal /\ [][NextProposal]_vars

\* ------------------------------------------------- LegacyDec mint parameters
\* Strings are sequences of one-character strings.
DecPlaces == 18
IsDigit(c) == c \in {"0", "1", "2", "3", "4", "5", "6", "7", "8", "9"}
AllDigits(s) == \A k \in 1..Len(s) : IsDigit(s[k])
Zeros(n) == [k \in 1..n |-> "0"]

\* String.prototype.trim, the white space being the space character
RECURSIVE trimStart(_)
trimStart(s) == IF s # <<>> /\ Head(s) = " " THEN trimStart(Tail(s)) ELSE s
RECURSIVE trimEnd(_)
trimEnd(s) ==
  IF s # <<>> /\ s[Len(s)] = " " THEN trimEnd(SubSeq(s, 1, Len(s) - 1)) ELSE s
trim(s) == trimEnd(trimStart(s))

\* the length of the longest prefix of s made of digits: what \d+ takes
RECURSIVE digitRun(_)
digitRun(s) ==
  IF s # <<>> /\ IsDigit(Head(s)) THEN 1 + digitRun(Tail(s)) ELSE 0

\* trimmed.match(/^(-?)(\d+)(?:\.(\d+))?$/): the groups, or matched = FALSE
NoMatch == [matched |-> FALSE, sign |-> <<>>, whole |-> <<>>, frac |-> <<>>]
decMatch(trimmed) ==
  LET sign == IF trimmed # <<>> /\ Head(trimmed) = "-" THEN <<"-">> ELSE <<>>
      rest == SubSeq(trimmed, Len(sign) + 1, Len(trimmed))
      whole == SubSeq(rest, 1, digitRun(rest))
      after == SubSeq(rest, Len(whole) + 1, Len(rest))
  IN IF whole = <<>> THEN NoMatch
     ELSE IF after = <<>>
     THEN [matched |-> TRUE, sign |-> sign, whole |-> whole, frac |-> <<>>]
     ELSE IF Head(after) = "." /\ Len(after) > 1 /\ AllDigits(Tail(after))
     THEN [matched |-> TRUE, sign |-> sign, whole |-> whole,
           frac |-> Tail(after)]
     ELSE NoMatch

\* String.prototype.padEnd(n, "0")
padEnd(s, n) == IF Len(s) >= n THEN s ELSE s \o Zeros(n - Len(s))

\* .replace(/^0+(?=\d)/, ""): the leading zeros that a digit follows go
RECURSIVE stripZeros(_)
stripZeros(s) ==
  IF Len(s) > 1 /\ s[1] = "0" /\ IsDigit(s[2]) THEN stripZeros(Tail(s)) ELSE s

Thrown(message) == [threw |-> TRUE, message |-> message, value |-> <<>>]
Returned(value) == [threw |-> FALSE, message |-> "", value |-> value]

\* toLegacyDecAtomics: the atomics string it returns or the error it throws
toLegacyDecAtomics(value) ==
  LET match == decMatch(trim(value))
      atomics == stripZeros(match.whole \o padEnd(match.frac, DecPlaces))
  IN IF ~match.matched THEN Thrown("Invalid decimal value")
     ELSE IF Len(match.frac) > DecPlaces
     THEN Thrown("Decimal values support up to 18 fractional digits.")
     ELSE Returned(match.sign \o atomics)

\* makeMintUpdateParamsProposalMsg: the mint parameters of the message it
\* builds, or the first error one of the four conversions throws
LegacyDecFields ==
  <<"inflation_rate_change", "inflation_max", "inflation_min", "goal_bonded">>
makeMintUpdateParamsProposalMsg(mintParams) ==
  LET dec == [k \in 1..4 |-> toLegacyDecAtomics(mintParams[LegacyDecFields[k]])]
      bad == {k \in 1..4 : dec[k].threw}
  IN IF bad # {}
     THEN [called |-> TRUE, built |-> FALSE,
           message |-> dec[CHOOSE k \in bad : \A j \in bad : k <= j].message,
           params |-> <<>>]
     ELSE [called |-> TRUE, built |-> TRUE, message |-> "",
           params |-> [k \in 1..4 |-> dec[k].value]]

\* The decimal strings a proposer may type.
DecSigns == {<<>>, <<"-">>, <<"+">>}
DecWholes == {<<>>, <<"0">>, <<"1">>, <<"0", "0", "7">>, <<"1", "0">>}
DecFracs ==
  {<<>>, <<".">>, <<".", "0">>, <<".", "6", "7">>, <<".", "x">>,
   <<".">> \o Zeros(2) \o <<"3">> \o Zeros(DecPlaces - 3),
   <<".">> \o Zeros(DecPlaces),
   <<".">> \o Zeros(DecPlaces - 1) \o <<"1">>,
   <<".">> \o Zeros(DecPlaces) \o <<"1">>,
   <<".">> \o Zeros(DecPlaces + 1)}
DecPads == {<<>>, <<" ">>}
DecStrings ==
  {l \o s \o w \o f \o r :
     l \in DecPads, s \in DecSigns, w \in DecWholes, f \in DecFracs, r \in DecPads}
MintParamInputs ==
  {[f \in {LegacyDecFields[k] : k \in 1..4} |->
      IF f = LegacyDecFields[g] THEN d ELSE <<"0", ".", "1", "3">>] :
     g \in 1..4, d \in DecStrings}

NotCalled == [called |-> FALSE]

InitMint ==
  /\ NoRun
  /\ page = NoPage /\ form = Undefined
  /\ arg \in MintParamInputs
  /\ ret = NotCalled

MakeMintUpdateParamsProposalMsg ==
  /\ ~ret.called
  /\ ret' = makeMintUpdateParamsProposalMsg(arg)
  /\ UNCHANGED <<runVars, page, form, arg>>

NextMint == MakeMintUpdateParamsProposalMsg

SpecMint == InitMint /\ [][NextMint]_vars

\* --------------------------------------------------- gov v1 Duration seconds
\* An integer of more than nine digits is kept as sign, hi and lo with
\* magnitude hi * Limb + lo and lo < Limb.
Limb == 1000000
DigitChars == <<"0", "1", "2", "3", "4", "5", "6", "7", "8", "9">>
DigitValue(c) == (CHOOSE k \in 1..10 : DigitChars[k] = c) - 1
Dec(ds) == [k \in 1..Len(ds) |-> DigitChars[ds[k] + 1]]
Big(neg, hi, lo) == [neg |-> neg, hi |-> hi, lo |-> lo]

\* the magnitude a string of decimal digits denotes, read left to right
RECURSIVE parseDigits(_, _)
parseDigits(s, acc) ==
  IF s = <<>> THEN acc
  ELSE parseDigits(Tail(s),
         Big(FALSE, acc.hi * 10 + (acc.lo * 10 + DigitValue(Head(s))) \div Limb,
             (acc.lo * 10 + DigitValue(Head(s))) % Limb))

\* BigInt(string) and Long.fromString(string) of a decimal integer string
parseInteger(s) ==
  LET neg == s # <<>> /\ Head(s) = "-"
      mag == parseDigits(IF neg THEN Tail(s) ELSE s, Big(FALSE, 0, 0))
  IN Big(neg /\ (mag.hi # 0 \/ mag.lo # 0), mag.hi, mag.lo)
BigInt(s) == parseInteger(s)
LongFromString(s) == parseInteger(s)

\* a < b on these integers
MagLess(a, b) == a.hi < b.hi \/ (a.hi = b.hi /\ a.lo < b.lo)
BigLess(a, b) ==
  IF a.neg /\ ~b.neg THEN TRUE
  ELSE IF ~a.neg /\ b.neg THEN FALSE
  ELSE IF a.neg THEN MagLess(b, a)
  ELSE MagLess(a, b)

MIN_DURATION_SECONDS == Big(TRUE, 315576, 0)
MAX_DURATION_SECONDS == Big(FALSE, 315576, 0)

\* secondsToDuration refusing the two bounds themselves
secondsToDurationExclusive(seconds) ==
  IF \/ ~BigLess(MIN_DURATION_SECONDS, BigInt(seconds))
     \/ ~BigLess(BigInt(seconds), MAX_DURATION_SECONDS)
  THEN Thrown("out of bounds")
  ELSE Returned([seconds |-> LongFromString(seconds), nanos |-> 0])

secondsToDuration(seconds) ==
  IF \/ BigLess(BigInt(seconds), MIN_DURATION_SECONDS)
     \/ BigLess(MAX_DURATION_SECONDS, BigInt(seconds))
  THEN Thrown("out of bounds")
  ELSE Returned([seconds |-> LongFromString(seconds), nanos |-> 0])

\* makeMsgUpdateGovParams: the two durations of the message's params, or the
\* error the first failing conversion throws
makeMsgUpdateGovParams(formData) ==
  LET maxDepositPeriod == secondsToDuration(formData.maxDepositPeriod)
      votingPeriod == secondsToDuration(formData.votingPeriod)
  IN IF maxDepositPeriod.threw
     THEN [called |-> TRUE, built |-> FALSE, message |-> maxDepositPeriod.message,
           params |-> <<>>]
     ELSE IF votingPeriod.threw
     THEN [called |-> TRUE, built |-> FALSE, message |-> votingPeriod.message,
           params |-> <<>>]
     ELSE [called |-> TRUE, built |-> TRUE, message |-> "",
           params |-> [maxDepositPeriod |-> maxDepositPeriod.value,
                       votingPeriod |-> votingPeriod.value]]

\* The seconds a form may hold: small values, and values at and around the
\* two bounds.
SecondsMagnitudes ==
  {Dec(<<0>>), Dec(<<1>>), Dec(<<1, 7, 2, 8, 0, 0>>),
   Dec(<<3, 1, 5, 5, 7, 5, 9, 9, 9, 9, 9, 9>>),
   Dec(<<3, 1, 5, 5, 7, 6, 0, 0, 0, 0, 0, 0>>),
   Dec(<<3, 1, 5, 5, 7, 6, 0, 0, 0, 0, 0, 1>>),
   Dec(<<3, 1, 5, 5, 7, 7, 0, 0, 0, 0, 0, 0>>),
   Dec(<<9, 9, 9, 9, 9, 9, 9, 9, 9, 9, 9>>),
   Dec(<<1, 0, 0, 0, 0, 0, 0, 0, 0, 0, 0, 0, 0>>)}
SecondsStrings ==
  SecondsMagnitudes \cup {<<"-">> \o m : m \in SecondsMagnitudes \ {Dec(<<0>>)}}
GovFormInputs ==
  [maxDepositPeriod : SecondsStrings, votingPeriod : SecondsStrings]

InitGov ==
  /\ NoRun
  /\ page = NoPage /\ form = Undefined
  /\ arg \in GovFormInputs
  /\ ret = NotCalled

MakeMsgUpdateGovParams ==
  /\ ~ret.called
  /\ ret' = makeMsgUpdateGovParams(arg)
  /\ UNCHANGED <<runVars, page, form, arg>>

NextGov == MakeMsgUpdateGovParams

SpecGov == InitGov /\ [][NextGov]_vars

\* ---------------------------------------------------- gov v1 params selector
\* An optional value is <<>> when it is undefined and <<v>> when it is v.
DurationFields == {"maxDepositPeriod", "votingPeriod", "expedited_voting_period"}
PlainFields ==
  {"minDeposit", "quorum", "threshold", "vetoThreshold",
   "minInitialDepositRatio", "min_deposit_ratio", "proposal_cancel_ratio",
   "expedited_min_deposit", "expedited_threshold", "burnVoteQuorum",
   "burnProposalDepositPrevote", "burnVoteVeto"}
GovFields == DurationFields \cup PlainFields

\* durationToSeconds(duration?)
durationToSeconds(duration) ==
  IF duration = <<>> \/ duration[1].seconds = <<>> \/ duration[1].seconds = <<"">>
  THEN "0"
  ELSE duration[1].seconds[1]

\* selectGovV1Params(query): undefined, or the form data
selectGovV1Params(query) ==
  IF query.data = <<>>
  THEN [called |-> TRUE, defined |-> FALSE, formData |-> <<>>]
  ELSE [called |-> TRUE, defined |-> TRUE,
        formData |->
          [f \in GovFields |->
             IF f \in DurationFields
             THEN <<durationToSeconds(query.data[1][f])>>
             ELSE query.data[1][f]]]

\* The responses of the gov params query: each duration omitted, without
\* seconds or with seconds; quorum and minDeposit omitted or present.
Durations ==
  {<<>>, <<[seconds |-> <<>>]>>, <<[seconds |-> <<"0">>]>>,
   <<[seconds |-> <<"172800">>]>>}
GovV1Responses ==
  {[f \in GovFields |->
      IF f = "maxDepositPeriod" THEN d1
      ELSE IF f = "votingPeriod" THEN d2
      ELSE IF f = "expedited_voting_period" THEN d3
      ELSE IF f = "quorum" THEN q
      ELSE IF f = "minDeposit" THEN m
      ELSE <<f>>] :
     d1 \in Durations, d2 \in Durations, d3 \in Durations,
     q \in {<<>>, <<"0.334">>}, m \in {<<>>, <<"10000000ubld">>}}
GovQueries == {[data |-> <<>>]} \cup {[data |-> <<r>>] : r \in GovV1Responses}

InitSelect ==
  /\ NoRun
  /\ page = NoPage /\ form = Undefined
  /\ arg \in GovQueries
  /\ ret = NotCalled

SelectGovV1Params ==
  /\ ~ret.called
  /\ ret' = selectGovV1Params(arg)
  /\ UNCHANGED <<runVars, page, form, arg>>

NextSelect == SelectGovV1Params

SpecSelect == InitSelect /\ [][NextSelect]_vars

\* ------------------------------------------- the GovV1ParameterInputs form
\* The component's state: formData (<<>> while it is null) and
\* validationErrors ("" for a key the object lacks), with the parameters its
\* query returned, the helper called last and the number of calls so far.
\* Of the fifteen fields of the form data the model keeps one of each kind:
\* the coin list, two durations, a ratio string and a flag.
MaxDeposits == 2     \* most coins in minDeposit
MaxOps == 2          \* most helper calls in a run

FormFields ==
  {"minDeposit", "maxDepositPeriod", "votingPeriod", "quorum", "burnVoteQuorum"}
FormDurationFields == {"maxDepositPeriod", "votingPeriod"}
Coin(denom, amount) == [denom |-> denom, amount |-> amount]

\* the parameters selectGovV1Params hands the component
CurrentParams ==
  [f \in FormFields |->
     IF f = "minDeposit" THEN <<Coin("ubld", "1")>>
     ELSE IF f = "maxDepositPeriod" THEN Dec(<<1, 7, 2, 8, 0, 0>>)
     ELSE IF f = "votingPeriod" THEN Dec(<<8, 6, 4, 0, 0>>)
     ELSE IF f = "quorum" THEN "0.334"
     ELSE FALSE]

\* what a user may type into a duration input
DurationTexts ==
  {<<>>, <<" ">>, Dec(<<6, 0>>), <<"-">> \o Dec(<<5>>), <<"a">>,
   Dec(<<3, 1, 5, 5, 7, 6, 0, 0, 0, 0, 0, 1>>)}
\* the values updateField may be given for a field
FieldValues(f) ==
  IF f = "minDeposit" THEN {<<>>, <<Coin("uist", "2")>>}
  ELSE IF f \in FormDurationFields THEN DurationTexts
  ELSE IF f = "quorum" THEN {"0.334", "0.5"}
  ELSE BOOLEAN

NoErrors == [f \in FormDurationFields |-> ""]
NoForm ==
  [formData |-> <<>>, validationErrors |-> NoErrors, currentParams |-> <<>>,
   last |-> [op |-> "none", field |-> "", index |-> Undefined], ops |-> 0]

\* BigInt(seconds) throws a SyntaxError unless the string is an integer
IsIntegerText(s) ==
  LET digits == IF s # <<>> /\ Head(s) \in {"-", "+"} THEN Tail(s) ELSE s
  IN digits # <<>> /\ AllDigits(digits)

\* validateDuration: the error message, "" for null
validateDuration(seconds) ==
  IF trim(seconds) = <<>> THEN ""
  ELSE IF ~IsIntegerText(seconds) THEN "Invalid number format"
  ELSE IF \/ BigLess(BigInt(seconds), MIN_DURATION_SECONDS)
          \/ BigLess(MAX_DURATION_SECONDS, BigInt(seconds))
  THEN "Duration must be between the bounds"
  ELSE IF BigInt(seconds).neg THEN "Duration cannot be negative"
  ELSE ""

\* updateField without its guard: spreading null gives an object with the
\* one field
updateFieldUnguarded(s, field, value) ==
  IF s.formData = <<>>
  THEN [s EXCEPT !.formData = <<[f \in {field} |-> value]>>]
  ELSE [s EXCEPT !.formData = <<[s.formData[1] EXCEPT ![field] = value]>>]

updateField(s, field, value) ==
  IF s.formData = <<>> THEN s
  ELSE [s EXCEPT !.formData = <<[s.formData[1] EXCEPT ![field] = value]>>]

updateDurationField(s, field, value) ==
  IF s.formData = <<>> THEN s
  ELSE [s EXCEPT !.formData = <<[s.formData[1] EXCEPT ![field] = value]>>,
                 !.validationErrors[field] = validateDuration(value)]

updateMinDeposit(s, index, field, value) ==
  IF s.formData = <<>> THEN s
  ELSE [s EXCEPT !.formData =
          <<[s.formData[1] EXCEPT !.minDeposit[index + 1][field] = value]>>]

addMinDeposit(s) ==
  IF s.formData = <<>> THEN s
  ELSE [s EXCEPT !.formData =
          <<[s.formData[1] EXCEPT !.minDeposit = Append(@, Coin("", ""))]>>]

\* the coins of a list other than the one at 0-based index
RECURSIVE without(_, _)
without(coins, index) ==
  IF coins = <<>> THEN <<>>
  ELSE IF index = 0 THEN Tail(coins)
  ELSE <<Head(coins)>> \o without(Tail(coins), index - 1)

removeMinDeposit(s, index) ==
  IF s.formData = <<>> THEN s
  ELSE [s EXCEPT !.formData =
          <<[s.formData[1] EXCEPT !.minDeposit = without(@, index)]>>]

\* the ref's reset()
resetForm(s) ==
  [s EXCEPT !.formData = s.currentParams, !.validationErrors = NoErrors]

Called(s, op, field, index) ==
  [s EXCEPT !.last = [op |-> op, field |-> field, index |-> index],
            !.ops = @ + 1]

formFrame == <<runVars, page, arg, ret>>

\* The query returns and the effect loads the parameters into the form.
ParamsLoaded ==
  /\ form.currentParams = <<>>
  /\ form' = [form EXCEPT !.currentParams = <<CurrentParams>>,
                          !.formData = IF form.formData = <<>>
                                       THEN <<CurrentParams>> ELSE @,
                          !.last = [op |-> "load", field |-> "",
                                    index |-> Undefined]]
  /\ UNCHANGED formFrame
UpdateField ==
  /\ form.ops < MaxOps
  /\ \E f \in FormFields : \E v \in FieldValues(f) :
       form' = Called(updateField(form, f, v), "updateField", f, Undefined)
  /\ UNCHANGED formFrame
UpdateDurationField ==
  /\ form.ops < MaxOps
  /\ \E f \in FormDurationFields, v \in DurationTexts :
       form' = Called(updateDurationField(form, f, v), "updateDurationField",
                      f, Undefined)
  /\ UNCHANGED formFrame
UpdateMinDeposit ==
  /\ form.ops < MaxOps
  /\ \E k \in 0..(MaxDeposits - 1), f \in {"denom", "amount"}, v \in {"", "3"} :
       /\ form.formData # <<>> => k < Len(form.formData[1].minDeposit)
       /\ form' = Called(updateMinDeposit(form, k, f, v), "updateMinDeposit",
                         f, k)
  /\ UNCHANGED formFrame
AddMinDeposit ==
  /\ form.ops < MaxOps
  /\ form.formData # <<>> => Len(form.formData[1].minDeposit) < MaxDeposits
  /\ form' = Called(addMinDeposit(form), "addMinDeposit", "", Undefined)
  /\ UNCHANGED formFrame
RemoveMinDeposit ==
  /\ form.ops < MaxOps
  /\ \E k \in 0..(MaxDeposits - 1) :
       form' = Called(removeMinDeposit(form, k), "removeMinDeposit", "", k)
  /\ UNCHANGED formFrame
ResetForm ==
  /\ form.ops < MaxOps
  /\ form' = Called(resetForm(form), "reset", "", Undefined)
  /\ UNCHANGED formFrame

InitForm ==
  /\ NoRun
  /\ page = NoPage
  /\ form = NoForm
  /\ arg = Undefined /\ ret = Undefined

NextForm ==
  \/ ParamsLoaded
  \/ UpdateField
  \/ UpdateDurationField
  \/ UpdateMinDeposit
  \/ AddMinDeposit
  \/ RemoveMinDeposit
  \/ ResetForm

SpecForm == InitForm /\ [][NextForm]_vars

\* ------------------------------------------------------ what the page renders
\* The page's hooks change state: the wallet connects and disconnects, the
\* queries load, the deposit alert is dismissed.
Balances == 1..MaxLimit
MinDeposits == {2, 3}
SwingSetData ==
  [isLoading : {FALSE}, hasData : BOOLEAN,
   chunk_size_limit_bytes : (0..MaxLimit) \cup {Undefined}]

ConnectWallet ==
  /\ ~page.walletAddress
  /\ page' = [page EXCEPT !.walletAddress = TRUE]
  /\ UNCHANGED pageFrame
DisconnectWallet ==
  /\ page.walletAddress
  /\ page' = [page EXCEPT !.walletAddress = FALSE, !.balance = Undefined]
  /\ UNCHANGED pageFrame
AccountBalancesLoaded ==
  /\ page.walletAddress
  /\ page.balance = Undefined
  /\ \E b \in Balances : page' = [page EXCEPT !.balance = b]
  /\ UNCHANGED pageFrame
DepositParamsLoaded ==
  /\ page.minDeposit = Undefined
  /\ \E d \in MinDeposits : page' = [page EXCEPT !.minDeposit = d]
  /\ UNCHANGED pageFrame
SwingSetParamsLoaded ==
  /\ page.swingSetParams.isLoading
  /\ \E d \in SwingSetData : page' = [page EXCEPT !.swingSetParams = d]
  /\ UNCHANGED pageFrame

\* the chunkSizeLimit the page derives from the swingset parameters query
chunkSizeLimitOf(q) ==
  IF q.isLoading \/ ~q.hasData THEN Infinity
  ELSE IF q.chunk_size_limit_bytes = Undefined THEN Infinity
  ELSE q.chunk_size_limit_bytes

canDeposit(p) ==
  \/ p.minDeposit = Undefined
  \/ p.balance # Undefined /\ p.balance >= p.minDeposit
AlertShown(p) == ~canDeposit(p) /\ p.alertBox

\* onClick={() => setAlertBox(false)} on the alert's close button
DismissAlert ==
  /\ AlertShown(page)
  /\ page' = [page EXCEPT !.alertBox = FALSE]
  /\ UNCHANGED pageFrame

Tab(title, msgType) == [title |-> title, msgType |-> msgType]

\* a tabs prop that offers Install Bundle to a connected wallet only
AgoricTabsWalletOnly(p) ==
  <<Tab("Text Proposal", "textProposal"),
    Tab("CoreEval Proposal", "coreEvalProposal")>>
  \o (IF p.walletAddress THEN <<Tab("Install Bundle", "installBundle")>>
      ELSE <<>>)
  \o <<Tab("Parameter Change Proposal", "parameterChangeProposal"),
       Tab("Community Pool Spend", "communityPoolSpendProposal")>>

\* the tabs prop the page passes to Tabs when it renders in state p
AgoricTabs(p) ==
  <<Tab("Text Proposal", "textProposal"),
    Tab("CoreEval Proposal", "coreEvalProposal"),
    Tab("Install Bundle", "installBundle"),
    Tab("Parameter Change Proposal", "parameterChangeProposal"),
    Tab("Community Pool Spend", "communityPoolSpendProposal")>>

\* Tabs: a tablist of one button per tab, in order, labelled with its title
TabList(tabs) == [k \in 1..Len(tabs) |-> tabs[k].title]

\* what the page renders in state p
Render(p) ==
  [alert |-> AlertShown(p), chunkSizeLimit |-> chunkSizeLimitOf(p.swingSetParams),
   tabList |-> TabList(AgoricTabs(p))]

InitTabs ==
  /\ NoRun
  /\ page = NoPage
  /\ form = Undefined /\ arg = Undefined /\ ret = Undefined

NextTabs ==
  \/ ConnectWallet
  \/ DisconnectWallet
  \/ AccountBalancesLoaded
  \/ DepositParamsLoaded
  \/ SwingSetParamsLoaded
  \/ DismissAlert

SpecTabs == InitTabs /\ [][NextTabs]_vars

\* ------------------------------------------------------------- properties
ChunkedPath == hashed # <<>>
Decided == calls # <<>> \/ hashed # <<>>
IsInstallBundleMsg(c) == c.msg.typeUrl = "/agoric.swingset.MsgInstallBundle"
IsSendChunkMsg(c) == c.msg.typeUrl = "/agoric.swingset.MsgSendChunk"
IsBundleCall(c) == IsInstallBundleMsg(c) /\ c.msg.hasCompressedBundle
IsManifestCall(c) == IsInstallBundleMsg(c) /\ c.msg.hasChunkedArtifact
StepOf(c) ==
  IF IsSendChunkMsg(c) THEN "chunk"
  ELSE IF IsManifestCall(c) THEN "manifest" ELSE "bundle"
Failed(o) == o \in {"rejected", "undefined"}

\* C1 (as stated): once gzip has resolved, installBundle is on the chunked
\* path exactly when the byte size of the gzip result exceeds chunkSizeLimit.
C1_Original ==
  Decided => (ChunkedPath <=> Len(compressedBundleBytes) > params.chunkSizeLimit)

\* C1 (amended): once gzip has resolved, installBundle is on the chunked path
\* exactly when the length of the bundle string (UTF-16 code units) exceeds
\* chunkSizeLimit; otherwise its only signAndBroadcast call is one
\* MsgInstallBundle that carries the whole compressed bundle.
C1_ChunkDecision ==
  Decided =>
    /\ ChunkedPath <=> Len(params.text) > params.chunkSizeLimit
    /\ ~ChunkedPath =>
         /\ Len(calls) = 1
         /\ IsBundleCall(calls[1])
         /\ ~calls[1].msg.hasChunkedArtifact
         /\ calls[1].msg.compressedBundle = compressedBundleBytes
    /\ ChunkedPath => \A k \in 1..Len(calls) : ~IsBundleCall(calls[k])

\* A run that chunks a bundle whose compressed size is within the limit and
\* has submitted the manifest.
C1_Witness ==
  /\ ChunkedPath
  /\ Len(compressedBundleBytes) <= params.chunkSizeLimit
  /\ calls # <<>>

\* C2: on the chunked path the first call is the manifest, it has been
\* answered with a response before any chunk call, and the k-th call after it
\* is the MsgSendChunk of index k - 1 carrying that chunk.
C2_ManifestThenChunksInOrder ==
  ChunkedPath =>
    \A k \in 1..Len(calls) :
      IF k = 1 THEN IsManifestCall(calls[1])
      ELSE /\ IsSendChunkMsg(calls[k])
           /\ calls[k].msg.chunkIndex = k - 2
           /\ k - 1 <= Len(chunks)
           /\ calls[k].msg.chunkData = chunks[k - 1]
           /\ Len(outcomes) >= 1 /\ outcomes[1] = "ok"

\* A completed chunked run of at least three chunks.
C2_Witness ==
  /\ pc = "resolved"
  /\ ChunkedPath
  /\ Len(chunks) >= 3
  /\ Len(calls) = 1 + Len(chunks)

\* C3: once a signAndBroadcast call has rejected or resolved to undefined,
\* installBundle has rejected with an error naming that step (bundle,
\* manifest, or chunk i) and that call is the last one of the run.
C3_FailureStopsRun ==
  \A k \in 1..Len(outcomes) :
    Failed(outcomes[k]) =>
      /\ pc = "rejected"
      /\ error.step = StepOf(calls[k])
      /\ error.index = calls[k].msg.chunkIndex
      /\ Len(calls) = k
      /\ result = <<>>

\* The second of at least three chunks failed.
C3_Witness ==
  /\ Len(outcomes) = 3
  /\ Failed(outcomes[3])
  /\ Len(chunks) >= 3

RECURSIVE Concat(_)
Concat(seqs) == IF seqs = <<>> THEN <<>> ELSE Head(seqs) \o Concat(Tail(seqs))

RECURSIVE SumSizes(_)
SumSizes(infos) ==
  IF infos = <<>> THEN 0 ELSE Head(infos).sizeBytes + SumSizes(Tail(infos))

\* C4: for a chunkSizeLimit of at least 1, every chunk chunkBundle has pushed
\* is non-empty and at most chunkSizeLimit bytes long, and every chunk but the
\* last is exactly chunkSizeLimit bytes long.
C4_ChunkSizes ==
  cbLimit >= 1 =>
    \A k \in 1..Len(chunks) :
      /\ Len(chunks[k]) >= 1
      /\ Len(chunks[k]) <= cbLimit
      /\ k < Len(chunks) => Len(chunks[k]) = cbLimit

\* chunkBundle returned at least two chunks, the last one shorter than the
\* limit.
C4_Witness ==
  /\ pc = "cbReturn"
  /\ cbLimit >= 2
  /\ Len(chunks) >= 2
  /\ Len(chunks[Len(chunks)]) < cbLimit

\* C5: for a chunkSizeLimit of at least 1, the chunks chunkBundle returns,
\* concatenated in index order, are the input bytes; the sizes its manifest
\* lists sum to manifest.sizeBytes, the input's byte length.
C5_ChunksConcatenateToInput ==
  (pc = "cbReturn" /\ cbLimit >= 1) =>
    /\ Concat(chunks) = cbBytes
    /\ Len(info) = Len(chunks)
    /\ SumSizes(chunkManifest(cbBytes, bundleSha512Hex, info).chunks)
         = chunkManifest(cbBytes, bundleSha512Hex, info).sizeBytes
    /\ chunkManifest(cbBytes, bundleSha512Hex, info).sizeBytes = Len(cbBytes)

\* chunkBundle returned three chunks or more of an input that holds both byte
\* values.
C5_Witness ==
  /\ pc = "cbReturn"
  /\ Len(chunks) >= 3
  /\ \E j, k \in 1..Len(cbBytes) : cbBytes[j] # cbBytes[k]

\* C6: at most one signAndBroadcast call of a run is outstanding, and a call
\* is outstanding exactly while installBundle awaits a transaction.
C6_OneOutstandingCall ==
  /\ Len(calls) - Len(outcomes) \in {0, 1}
  /\ Len(calls) - Len(outcomes) = 1
       <=> pc \in {"awaitBundle", "awaitManifest", "awaitChunk"}

\* The third chunk transaction is outstanding.
C6_Witness ==
  /\ pc = "awaitChunk"
  /\ i = 2
  /\ Len(calls) = 4
  /\ Len(outcomes) = 3

\* C7: a run submits at most one MsgInstallBundle (bundle or manifest) and at
\* most one MsgSendChunk per chunk index, whatever the outcomes.
C7_NoRetry ==
  /\ \A j, k \in 1..Len(calls) :
       (IsInstallBundleMsg(calls[j]) /\ IsInstallBundleMsg(calls[k])) => j = k
  /\ \A j, k \in 1..Len(calls) :
       (/\ IsSendChunkMsg(calls[j])
        /\ IsSendChunkMsg(calls[k])
        /\ calls[j].msg.chunkIndex = calls[k].msg.chunkIndex) => j = k

\* A run that ended because the transaction of its second chunk rejected.
C7_Witness ==
  /\ pc = "rejected"
  /\ error.step = "chunk"
  /\ error.index = 1
  /\ outcomes[Len(outcomes)] = "rejected"

ExpectedCalls == IF ChunkedPath THEN 1 + Len(chunks) ELSE 1
AllAnswered ==
  /\ Len(outcomes) = Len(calls)
  /\ \A k \in 1..Len(outcomes) : outcomes[k] = "ok"
  /\ Len(calls) = ExpectedCalls
Watching == \E k \in 1..Len(events) : events[k].type = "watching"

\* C8: watchBundle is called at most once, and it is called (and "watching"
\* emitted) only when every transaction of the run has returned a response;
\* a run in which a submission failed never calls it nor emits "watching".
C8_WatchAfterAllSubmissions ==
  /\ Len(watchCalls) <= 1
  /\ (watchCalls # <<>> \/ Watching) =>
       /\ AllAnswered
       /\ error.step \notin {"bundle", "manifest", "chunk"}
  /\ watchCalls # <<>> => watchCalls[1].height = blockHeight
  /\ (\/ \E k \in 1..Len(outcomes) : Failed(outcomes[k])
      \/ error.step \in {"bundle", "manifest", "chunk"}) =>
       watchCalls = <<>> /\ ~Watching

\* watchBundle was called after the manifest and two chunks.
C8_Witness ==
  /\ watchCalls # <<>>
  /\ ChunkedPath
  /\ Len(chunks) = 2
  /\ Watching

\* C9 (as stated): the key of every watchBundle call is a hash the workflow
\* computed over the whole payload (the encoded or the compressed bundle).
C9_Original ==
  \A w \in 1..Len(watchCalls) :
    \E k \in 1..Len(hashed) :
      /\ hashed[k] \in {uncompressedBundleBytes, compressedBundleBytes}
      /\ watchCalls[w].bundleHash = getSha512Hex(hashed[k])

\* C9 (amended): the key of watchBundle, the bundleHash of every progress
\* event and that of the result are the endoZipBase64Sha512 string the
\* validated bundle JSON declares, on both paths; the workflow does not
\* compute it.
C9_WatchKeyIsDeclaredHash ==
  /\ \A w \in 1..Len(watchCalls) :
       /\ params.parsed.shaIsString
       /\ watchCalls[w].bundleHash = params.parsed.endoZipBase64Sha512
  /\ \A k \in 1..Len(events) :
       events[k].bundleHash = params.parsed.endoZipBase64Sha512
  /\ result # <<>> => result[1].bundleHash = params.parsed.endoZipBase64Sha512

\* A single-transaction run that watched and returned without hashing
\* anything.
C9_Witness ==
  /\ pc = "resolved"
  /\ watchCalls # <<>>
  /\ hashed = <<>>
  /\ events # <<>>

\* C10: a run that completes has made one signAndBroadcast call on the
\* single-transaction path, and on the chunked path one manifest call followed
\* by one MsgSendChunk call per chunk chunkBundle returned.
C10_CallCount ==
  pc = "resolved" =>
    IF ChunkedPath
    THEN /\ Len(calls) = 1 + Len(chunks)
         /\ IsManifestCall(calls[1])
         /\ \A k \in 2..Len(calls) : IsSendChunkMsg(calls[k])
    ELSE Len(calls) = 1 /\ IsBundleCall(calls[1])

\* A completed chunked run of exactly one chunk.
C10_Witness ==
  /\ pc = "resolved"
  /\ ChunkedPath
  /\ Len(chunks) = 1
  /\ Len(calls) = 2

ErrorToasts(toasts) == {k \in 1..Len(toasts) : toasts[k].kind = "error"}
\* C11: handleBundle never rejects: whenever fallibleHandleBundle has thrown
\* (wallet not connected, invalid bundle file, a failed bundle, manifest or
\* chunk submission, a missing block height, watchBundle failing), the
\* handler's promise is resolved, exactly one toast.error was shown, it
\* carries the error's message, and the bundle form was not reset.
C11_HandleBundleNeverRejects ==
  /\ page.handled # "rejected"
  /\ page.error # NoError =>
       /\ page.handled = "resolved"
       /\ Cardinality(ErrorToasts(page.toasts)) = 1
       /\ \A k \in ErrorToasts(page.toasts) : page.toasts[k].message = page.error
       /\ page.resets = 0
  /\ page.error = NoError => ErrorToasts(page.toasts) = {}
C11_Witness ==
  /\ page.handled = "resolved"
  /\ page.error.step = "chunk"
  /\ page.error.index = 1
  /\ Len(page.toasts) = 2
  /\ page.toasts[2].kind = "error"

ProposalRaised ==
  page.proposal.error.step \in {"wallet", "evals", "recipient", "message"}
\* C12: the submit handler made by handleProposal never rejects, and every
\* error it raises itself (wallet not connected, missing evals, missing
\* recipient or amount, no message built) is shown as a toast.error.
C12_Original ==
  /\ page.proposal.handled # "rejected"
  /\ ProposalRaised => ErrorToasts(page.toasts) # {}

\* C13: the manifest chunkBundle returns is parallel to its chunks: as many
\* entries as chunks, entry k holding the byte length and the SHA-512 of chunk
\* k and state 0, and the manifest's own sha512 is that of the whole input.
C13_ManifestParallelToChunks ==
  /\ Len(info) = Len(chunks)
  /\ pc = "cbReturn" =>
       LET manifest == chunkManifest(cbBytes, bundleSha512Hex, info)
       IN /\ Len(manifest.chunks) = Len(chunks)
          /\ \A k \in 1..Len(chunks) :
               /\ manifest.chunks[k].sizeBytes = Len(chunks[k])
               /\ manifest.chunks[k].sha512 = getSha512Hex(chunks[k])
               /\ manifest.chunks[k].state = 0
          /\ manifest.sha512 = getSha512Hex(cbBytes)
          /\ manifest.sizeBytes = Len(cbBytes)
C13_Witness ==
  /\ pc = "cbReturn"
  /\ Len(info) = 2
  /\ info[1].sizeBytes = 3
  /\ info[2].sizeBytes = 1
  /\ info[1].sha512 # info[2].sha512

\* What C14 says of a decimal string t: whether it has the form (a minus sign
\* or none, digits, and at most DecPlaces digits after a point if there is
\* one), and the integer string of its value times 10^DecPlaces.
Unsigned(t) == IF t # <<>> /\ Head(t) = "-" THEN Tail(t) ELSE t
PointOf(u) ==
  IF \E k \in 1..Len(u) : u[k] = "."
  THEN CHOOSE k \in 1..Len(u) : u[k] = "." /\ \A j \in 1..(k - 1) : u[j] # "."
  ELSE Len(u) + 1
WholeOf(t) == SubSeq(Unsigned(t), 1, PointOf(Unsigned(t)) - 1)
FracOf(t) == SubSeq(Unsigned(t), PointOf(Unsigned(t)) + 1, Len(Unsigned(t)))
OfDecimalForm(t) ==
  /\ WholeOf(t) # <<>> /\ AllDigits(WholeOf(t)) /\ AllDigits(FracOf(t))
  /\ PointOf(Unsigned(t)) <= Len(Unsigned(t)) => FracOf(t) # <<>>
  /\ Len(FracOf(t)) <= DecPlaces
ScaledDigits(t) == WholeOf(t) \o FracOf(t) \o Zeros(DecPlaces - Len(FracOf(t)))
IsZero(digits) == \A k \in 1..Len(digits) : digits[k] = "0"
IntegerString(t) ==
  LET digits == ScaledDigits(t)
      first == CHOOSE k \in 1..Len(digits) :
                 digits[k] # "0" /\ \A j \in 1..(k - 1) : digits[j] = "0"
  IN IF IsZero(digits) THEN <<"0">>
     ELSE (IF Head(t) = "-" THEN <<"-">> ELSE <<>>)
            \o SubSeq(digits, first, Len(digits))
\* C14: makeMintUpdateParamsProposalMsg encodes each LegacyDec parameter whose
\* string (surrounding white space aside) has the decimal form as the integer
\* string of its value times 10^18, "0" for zero; if a parameter has more
\* than 18 fractional digits or not that form, no message is built.
C14_Original ==
  ret.called =>
    /\ ret.built <=> \A k \in 1..4 : OfDecimalForm(trim(arg[LegacyDecFields[k]]))
    /\ ret.built =>
         \A k \in 1..4 :
           ret.params[k] = IntegerString(trim(arg[LegacyDecFields[k]]))

\* C15: in every state of the page (wallet connected or not, queries loading
\* or loaded, deposit alert shown, hidden or dismissed) it renders exactly
\* the five tabs Text Proposal, CoreEval Proposal, Install Bundle, Parameter
\* Change Proposal, Community Pool Spend, in that order.
C15_FiveTabs ==
  Render(page).tabList =
    <<"Text Proposal", "CoreEval Proposal", "Install Bundle",
      "Parameter Change Proposal", "Community Pool Spend">>
C15_Witness ==
  /\ ~page.walletAddress
  /\ ~page.alertBox
  /\ page.swingSetParams.hasData
  /\ Render(page).chunkSizeLimit = 0
  /\ Len(Render(page).tabList) = 5

Awaiting ==
  {"start", "gzip", "awaitBundle", "cbHashBundle", "cbHashChunk", "cbReturn",
   "awaitManifest", "awaitChunk", "watchBundle"}
SameSubmissions ==
  /\ page.calls = calls
  /\ page.outcomes = outcomes
  /\ pc \in Awaiting \ {"watchBundle"} => page.pc = pc
  /\ pc = "rejected" /\ error.step # "watchBundle" =>
       page.pc = "done" /\ page.error = error
  /\ page.error.step \notin {"none", "watchBundle"} =>
       pc = "rejected" /\ error = page.error
SameWatch ==
  /\ page.watchCalls = watchCalls
  /\ pc = "watchBundle" => page.pc = "watchBundle"
  /\ pc = "rejected" <=> page.error # NoError
  /\ pc = "rejected" => page.error = error
  /\ pc = "resolved" => page.pc = "done" /\ page.handled = "resolved"
\* C16 as stated: installBundle and fallibleHandleBundle, given the same bundle,
\* limit, submitter and outcomes, make the same signAndBroadcast calls, fail at
\* the same step with the same message and call watchBundle with the same
\* hash and height.
C16_Original == SameSubmissions /\ SameWatch
\* C16: the two make the same signAndBroadcast calls and fail at the same
\* submission step with the same message; given a watchBundle, installBundle
\* also calls it with the same hash and height and settles as the handler
\* does; given none, it calls nothing and resolves with the hash and height
\* the handler passes to its watchBundle.
C16_SameBehaviour ==
  /\ SameSubmissions
  /\ params.hasWatchBundle => SameWatch
  /\ ~params.hasWatchBundle =>
       /\ watchCalls = <<>>
       /\ page.watchCalls # <<>> =>
            /\ pc = "resolved"
            /\ page.watchCalls =
                 <<[bundleHash |-> result[1].bundleHash,
                    height |-> result[1].blockHeight]>>
C16_Witness ==
  /\ params.hasWatchBundle
  /\ pc = "resolved"
  /\ Len(calls) = 3
  /\ page.calls = calls
  /\ page.resets = 1
  /\ page.watchCalls = watchCalls

\* What C17 says of a parsed bundle: when validateBundleJson returns it, and
\* otherwise the check that throws, in the order of the checks.
BundleAccepted(parsed) ==
  /\ parsed.parsable /\ ~parsed.isNull
  /\ parsed.moduleFormat = "endoZipBase64"
  /\ parsed.zipIsString /\ parsed.shaIsString
FirstFailedCheck(parsed) ==
  IF ~parsed.parsable THEN {"not parsable as JSON"}
  ELSE IF parsed.isNull THEN {"cannot destructure null"}
  ELSE IF parsed.moduleFormat # "endoZipBase64" THEN {"moduleFormat"}
  ELSE IF ~parsed.zipIsString THEN {"endoZipBase64"}
  ELSE {"endoZipBase64Sha512"}
\* C17: validateBundleJson returns the parsed object exactly when the JSON
\* parses, moduleFormat is "endoZipBase64" and endoZipBase64 and
\* endoZipBase64Sha512 are strings; otherwise it throws at the first of these
\* checks that fails, and installBundle rejects with that error before gzip,
\* signAndBroadcast, watchBundle or onProgress is called.
C17_ValidateBeforeAnything ==
  /\ BundleAccepted(params.parsed) =>
       /\ error.step # "validate"
       /\ \A k \in 1..Len(watchCalls) :
            watchCalls[k].bundleHash = params.parsed.endoZipBase64Sha512
  /\ ~BundleAccepted(params.parsed) =>
       /\ pc \in {"start", "rejected"}
       /\ pc = "rejected" =>
            /\ error.step = "validate"
            /\ error.cause \in FirstFailedCheck(params.parsed)
       /\ compressedBundleBytes = <<>> /\ hashed = <<>>
       /\ calls = <<>> /\ watchCalls = <<>> /\ events = <<>>
C17_Witness ==
  /\ pc = "rejected"
  /\ params.parsed.parsable /\ ~params.parsed.isNull
  /\ params.parsed.moduleFormat = "getExport"
  /\ ~params.parsed.zipIsString
  /\ error.cause = "moduleFormat"
  /\ params.hasOnProgress /\ params.hasWatchBundle

\* What C18 says of a decimal integer string: whether it lies between
\* -315,576,000,000 and +315,576,000,000, told from its digits, and the
\* decimal string of a returned seconds value.
Magnitude(s) == IF s # <<>> /\ Head(s) = "-" THEN Tail(s) ELSE s
RECURSIVE DigitsLeq(_, _)
DigitsLeq(a, b) ==
  IF a = <<>> THEN TRUE
  ELSE IF DigitValue(Head(a)) # DigitValue(Head(b))
  THEN DigitValue(Head(a)) < DigitValue(Head(b))
  ELSE DigitsLeq(Tail(a), Tail(b))
BoundDigits == Dec(<<3, 1, 5, 5, 7, 6, 0, 0, 0, 0, 0, 0>>)
WithinDuration(s) ==
  \/ Len(Magnitude(s)) < Len(BoundDigits)
  \/ /\ Len(Magnitude(s)) = Len(BoundDigits)
     /\ DigitsLeq(Magnitude(s), BoundDigits)
RECURSIVE NatText(_)
NatText(n) ==
  IF n < 10 THEN <<DigitChars[n + 1]>>
  ELSE NatText(n \div 10) \o <<DigitChars[(n % 10) + 1]>>
LongText(v) ==
  (IF v.neg THEN <<"-">> ELSE <<>>)
  \o (IF v.hi = 0 THEN NatText(v.lo)
      ELSE NatText(v.hi) \o SubSeq(NatText(Limb + v.lo), 2, 7))
\* C18: makeMsgUpdateGovParams builds its message exactly when both duration
\* strings are integers from -315,576,000,000 to +315,576,000,000 inclusive,
\* each converted to {seconds, nanos: 0} with that number of seconds; an
\* integer outside the range throws the out-of-bounds error and no message
\* is built.
C18_DurationBounds ==
  ret.called =>
    /\ ret.built <=>
         WithinDuration(arg.maxDepositPeriod) /\ WithinDuration(arg.votingPeriod)
    /\ ret.built =>
         /\ LongText(ret.params.maxDepositPeriod.seconds) = arg.maxDepositPeriod
         /\ LongText(ret.params.votingPeriod.seconds) = arg.votingPeriod
         /\ ret.params.maxDepositPeriod.nanos = 0
         /\ ret.params.votingPeriod.nanos = 0
    /\ ~ret.built => ret.message = "out of bounds" /\ ret.params = <<>>
C18_Witness ==
  /\ ret.called /\ ret.built
  /\ arg.maxDepositPeriod = <<"-">> \o BoundDigits
  /\ arg.votingPeriod = BoundDigits
  /\ ret.params.votingPeriod.seconds = MAX_DURATION_SECONDS

\* the value the API returned for field f of response r, <<>> if omitted
ApiValue(r, f) ==
  IF f \in DurationFields
  THEN (IF r[f] = <<>> THEN <<>> ELSE r[f][1].seconds)
  ELSE r[f]
\* C19: every field of the form data selectGovV1Params returns holds the value
\* the API returned for that parameter, and a parameter the response omits
\* (the durations included) gets no value in its place.
C19_Original ==
  (ret.called /\ ret.defined) =>
    \A f \in GovFields : ret.formData[f] = ApiValue(arg.data[1], f)

Helpers ==
  {"updateField", "updateDurationField", "updateMinDeposit", "addMinDeposit",
   "removeMinDeposit"}
\* the value updateField was last called with is not part of the state; a
\* step of updateField on field f is told by last and by the call count
UpdatedField(f) ==
  /\ form'.ops = form.ops + 1
  /\ form'.last.op = "updateField" /\ form'.last.field = f
C21_Original == <>(pc \in {"resolved", "rejected"})

SendChunkCalls == {k \in 1..Len(calls) : IsSendChunkMsg(calls[k])}
NoArtifactId ==
  /\ error.step = "manifest"
  /\ error.cause \in {"no install bundle response",
                      "no chunked artifact identifier"}
EventsOf(type) == {k \in 1..Len(events) : events[k].type = type}
OkBefore(k) == k <= Len(outcomes) /\ outcomes[k] = "ok"
IsPrefix(s, t) == Len(s) <= Len(t) /\ s = SubSeq(t, 1, Len(s))
\* the place of an event in the order of a run, given what precedes it
InOrder(k) ==
  LET e == events[k]
  IN IF k = 1 THEN e.type = "preflight"
     ELSE IF e.type = "bundle-submitted"
     THEN k = 2 /\ ~ChunkedPath /\ OkBefore(1)
     ELSE IF e.type = "manifest-submitted"
     THEN k = 2 /\ ChunkedPath /\ OkBefore(1)
     ELSE IF e.type = "chunk-submitted"
     THEN /\ k >= 3 /\ ChunkedPath
          /\ e.index = k - 3
          /\ e.index < Len(chunks)
          /\ OkBefore(k - 1)
     ELSE /\ e.type = "watching"
          /\ k = Len(events)
          /\ IF ChunkedPath THEN k = 3 + Len(chunks) ELSE k = 3
\* C24: the progress events of a run are, in this order: one preflight,
\* emitted before any signAndBroadcast call; then one bundle-submitted, or one
\* manifest-submitted and chunk-submitted events of index 0, 1, ..., each
\* emitted only once its transaction has returned a response; then
\* "watching", last and at most once.  Events are only ever added at the end,
\* so a failed run has emitted a prefix of this sequence; without onProgress
\* nothing is emitted.
C24_EventOrder ==
  /\ [](/\ \A k \in 1..Len(events) : InOrder(k)
        /\ params.hasOnProgress => (calls # <<>> => events # <<>>)
        /\ ~params.hasOnProgress => events = <<>>
        /\ (pc = "resolved" /\ params.hasOnProgress) =>
             events[Len(events)].type = "watching")
  /\ [][IsPrefix(events, events')]_vars
\* A completed run of three chunks that reported every step.
C24_Witness ==
  /\ pc = "resolved"
  /\ ChunkedPath
  /\ Len(chunks) = 3
  /\ Len(events) = 6
  /\ events[5].type = "chunk-submitted" /\ events[5].index = 2
====
